---- MODULE Spec2Model ----
(***************************************************************************)
(* Confidential chunked transfer engine of Decentralised-cloud-storage.    *)
(*                                                                         *)
(* The repository holds three implementations of chunkedUploadFile:        *)
(*   "ts"       frontend/src/services/chunkedUpload.ts (called by App.tsx) *)
(*   "service"  server/chunkedService.js   (debounced schedulePersist)     *)
(*   "uploader" server/chunkedFileUploader.js                              *)
(* The variable `variant` says which one a behaviour runs.  An upload run  *)
(* is a prelude (session load, key preparation), a pool of workers whose   *)
(* steps are the stretches of code between two awaits, the publication of  *)
(* the manifest and the on-chain registration.                             *)
(***************************************************************************)
EXTENDS Integers, Sequences, FiniteSets, TLC

\* ------------------------------------------------------------------ bounds
MaxChunks == 3          \* totalChunks of a file ranges over 0..MaxChunks
MaxConcurrency == 2     \* opts.concurrency ranges over 1..MaxConcurrency
MaxRuns == 2            \* upload runs per behaviour
MaxKeys == 3            \* AES keys generated per behaviour

Variants == {"ts", "service", "uploader"}
Workers == 1..MaxConcurrency
\* an index a worker can be handed: the uploader's worker can step past
\* totalChunks, once per worker
Idx == 0..(MaxChunks + MaxConcurrency - 1)
Sessions == 1..MaxRuns
KeyIds == 1..MaxKeys
NoKey == 0
NoIndex == -1

\* ------------------------------------------------------- session snapshots
\* EncapsulatedKey: the FileKey `key` wrapped for the keypair `pub`
\* ("sig" = signature-derived X25519 keypair, "mm" = MetaMask's own
\* encryption keypair); pub = "none" is the null encryptedAesForOwner.
NoEnc == [pub |-> "none", key |-> NoKey]
EncFor(pub, k) == [pub |-> pub, key |-> k]

NoManifest == [set |-> FALSE, chunks |-> << >>]

NoUploaded == [i \in Idx |-> NoKey]

\* The state skeleton of a fresh session.  uploaded[i] is the content
\* address recorded for chunk i, written as the key the chunk was encrypted
\* under (NoKey = no record); aesKeyBase64 is the raw-key field a snapshot
\* must never carry.
NewState(T) ==
  [ totalChunks |-> T,
    uploaded |-> NoUploaded,
    encryptedAesForOwner |-> NoEnc,
    metadataCid |-> NoManifest,
    registered |-> FALSE,
    aesKeyBase64 |-> NoKey ]

NoSession == [ totalChunks |-> -1,
               uploaded |-> NoUploaded,
               encryptedAesForOwner |-> NoEnc,
               metadataCid |-> NoManifest,
               registered |-> FALSE,
               aesKeyBase64 |-> NoKey ]

\* uploaded[n] counts as recorded whether or not it holds a record
HasUnrecorded(up, n) == n \in DOMAIN up
Has(up, n) == n \in DOMAIN up /\ up[n] # NoKey

\* `delete copy.aesKeyBase64`
StripRawKey(s) == [s EXCEPT !.aesKeyBase64 = NoKey]

\* What set(sessionKey, state) of chunkedUpload.ts hands to the store: the
\* state object; the in-memory key k is not part of it.
TsSnapshotLeak(s, k) == [s EXCEPT !.aesKeyBase64 = k]
TsSnapshot(s, k) == s

\* What the debounced writer of chunkedService.js hands to idbSet.
SvcSnapshot(s, k) == StripRawKey(s)

\* What idbSet(sessionKey, state) of chunkedFileUploader.js stores.
UplSnapshot(s, k) == s

Snapshot(v, s, k) ==
  CASE v = "ts" -> TsSnapshot(s, k)
    [] v = "service" -> SvcSnapshot(s, k)
    [] OTHER -> UplSnapshot(s, k)

\* ------------------------------------------------------------ index claims
\* nextIndex after the claim of index i
NextIndexStale(i) == i
NextIndexAfterClaim(i) == i + 1

RECURSIVE TsSkip(_, _, _)
TsSkip(n, up, T) ==
  IF n < T /\ Has(up, n) THEN TsSkip(n + 1, up, T) ELSE n

\* chunkedUpload.ts worker(): skip recorded indices, then i = nextIndex++
TsClaim(n, up, T) ==
  LET m == TsSkip(n, up, T) IN
  IF m < T THEN [i |-> m, next |-> NextIndexAfterClaim(m), stop |-> FALSE]
  ELSE [i |-> NoIndex, next |-> m, stop |-> TRUE]

\* the service's claim without the test of state.uploaded[i]
SvcClaimNoSkip(n, up, T) ==
  IF n >= T THEN [i |-> NoIndex, next |-> n + 1, stop |-> TRUE]
  ELSE [i |-> n, next |-> n + 1, stop |-> FALSE]

RECURSIVE SvcClaim(_, _, _)
\* chunkedService.js worker(): i = nextIndex++; return past the end;
\* continue over recorded indices
SvcClaim(n, up, T) ==
  IF n >= T THEN [i |-> NoIndex, next |-> NextIndexAfterClaim(n), stop |-> TRUE]
  ELSE IF Has(up, n) THEN SvcClaim(NextIndexAfterClaim(n), up, T)
  ELSE [i |-> n, next |-> NextIndexAfterClaim(n), stop |-> FALSE]

RECURSIVE UplClaim(_, _, _)
\* chunkedFileUploader.js worker(): while (uploaded[nextIndex]) { nextIndex++;
\* if (nextIndex >= totalChunks) return; }  i = nextIndex; nextIndex++
UplClaim(n, up, T) ==
  IF Has(up, n)
  THEN IF n + 1 >= T THEN [i |-> NoIndex, next |-> n + 1, stop |-> TRUE]
       ELSE UplClaim(n + 1, up, T)
  ELSE [i |-> n, next |-> NextIndexAfterClaim(n), stop |-> FALSE]

Claim(v, n, up, T) ==
  CASE v = "ts" -> TsClaim(n, up, T)
    [] v = "service" -> SvcClaim(n, up, T)
    [] OTHER -> UplClaim(n, up, T)

\* ------------------------------------------------------------ chunk cipher
\* cryptoService.ts encryptChunk / decryptChunk over byte sequences.  AES-GCM
\* itself is the platform's crypto.subtle; it is modelled as a keyed stream
\* cipher (byte-wise addition of a keystream that depends on key, IV and
\* position) followed by a tag that depends on key, IV, additional data and
\* ciphertext, which is what the packing code around it relies on.
MaxPlainLen == 2        \* chunk plaintexts have 0..MaxPlainLen bytes
MaxIndex == 11          \* chunk indices range over 0..MaxIndex
MaxCipherKeys == 2      \* AES keys of the cipher exchanges
IvLength == 12
TagLength == 16
MinPacked == 13

PlainBytes == {0, 200}
Plaintexts == UNION { [1..n -> PlainBytes] : n \in 0..MaxPlainLen }
CipherKeys == 1..MaxCipherKeys
ChunkIndices == 0..MaxIndex
\* the values crypto.getRandomValues(new Uint8Array(12)) is drawn from
RandomIvs == { [j \in 1..IvLength |-> b] : b \in {7, 250} }
\* the bit positions of a byte that a corruption flips
FlipBits == {0, 7}
Pow2(n) == IF n = 0 THEN 1 ELSE 128
\* byte b with bit number `bit` inverted
FlipBit(b, bit) ==
  IF (b \div Pow2(bit)) % 2 = 1 THEN b - Pow2(bit) ELSE b + Pow2(bit)

RECURSIVE Digits(_)
\* chunkIndex.toString() as UTF-8 bytes
Digits(n) ==
  IF n < 10 THEN << 48 + n >> ELSE Digits(n \div 10) \o << 48 + (n % 10) >>

\* additional data that does not depend on the chunk's position
AadNoIndex(chunkIndex) == << >>
\* new TextEncoder().encode(chunkIndex.toString())
Aad(chunkIndex) == Digits(chunkIndex)

GcmKeystream(k, iv, j) == (k * 17 + iv[1] * 3 + iv[IvLength] + j * 29) % 256

RECURSIVE GcmMix(_, _)
GcmMix(bytes, h) ==
  IF bytes = << >> THEN h
  ELSE GcmMix(Tail(bytes), (h * 31 + Head(bytes) + 1) % 65521)

GcmTag(k, iv, aad, ct) ==
  LET h == GcmMix(iv \o << Len(aad) >> \o aad \o ct, k) IN
  [j \in 1..TagLength |-> IF j % 2 = 1 THEN (h + j) % 256
                          ELSE ((h \div 256) + j) % 256]

\* crypto.subtle.encrypt({ name: "AES-GCM", iv, additionalData }, key, data):
\* ciphertext followed by the 128-bit tag
GcmEncrypt(k, iv, aad, data) ==
  LET ct == [j \in 1..Len(data) |-> (data[j] + GcmKeystream(k, iv, j)) % 256] IN
  ct \o GcmTag(k, iv, aad, ct)

\* the promise of crypto.subtle.decrypt rejects (OperationError): no plaintext
DecryptFailed == [ok |-> FALSE, data |-> << >>, err |-> "OperationError"]

\* throw new Error("Packed data too small")
TooSmall == [ok |-> FALSE, data |-> << >>, err |-> "too small"]

\* crypto.subtle.decrypt: OperationError when the input is shorter than the
\* tag or the tag does not verify
GcmDecrypt(k, iv, aad, c) ==
  IF Len(c) < TagLength THEN DecryptFailed
  ELSE LET ct == SubSeq(c, 1, Len(c) - TagLength)
           tag == SubSeq(c, Len(c) - TagLength + 1, Len(c))
       IN IF tag # GcmTag(k, iv, aad, ct) THEN DecryptFailed
          ELSE [ok |-> TRUE,
                data |-> [j \in 1..Len(ct) |->
                            (ct[j] + 256 - GcmKeystream(k, iv, j)) % 256],
                err |-> "none"]

\* packed.set(iv, 0); packed.set(new Uint8Array(ciphertext), 12)
Pack(iv, ciphertext) == iv \o ciphertext

\* packed.slice(0, 12)
PackedIv(packed) == SubSeq(packed, 1, IvLength)

\* a slice that starts one byte late
PackedCiphertextShifted(packed) == SubSeq(packed, IvLength + 2, Len(packed))
\* packed.slice(12)
PackedCiphertext(packed) == SubSeq(packed, IvLength + 1, Len(packed))

encryptChunk(key, data, chunkIndex, iv) ==
  Pack(iv, GcmEncrypt(key, iv, Aad(chunkIndex), data))

decryptChunk(key, packed, chunkIndex) ==
  IF Len(packed) < MinPacked THEN TooSmall
  ELSE GcmDecrypt(key, PackedIv(packed), Aad(chunkIndex), PackedCiphertext(packed))

NoCipher ==
  [ phase |-> "idle", key |-> NoKey, data |-> << >>, chunkIndex |-> 0,
    packed |-> << >>, mangle |-> "none", dkey |-> NoKey, dindex |-> 0,
    out |-> DecryptFailed ]

\* --------------------------------------------------- TimeBoundFileRegistry
\* contract.sol. One file (owner, cid) is followed: uploads[owner][hash(cid)]
\* and the access records access[fileKey][grantee] of every account. A call
\* whose require fails reverts and leaves the storage as it was, so a
\* require is a guard of the call's action.
MaxTime == 2            \* block timestamps 0..MaxTime
MaxBlob == 2            \* distinct non-empty `bytes` values
Accounts == {"owner", "grantee"}
EmptyBytes == << >>
BytesArgs == {EmptyBytes} \cup {<< b >> : b \in 1..MaxBlob}
Cids == {"", "cid"}

\* a storage slot never written reads as zero
NoFile ==
  [ cid |-> "", encryptedKey |-> EmptyBytes, timestamp |-> 0,
    revoked |-> FALSE, exists |-> FALSE ]
NoAccess ==
  [ encryptedKeyForGrantee |-> EmptyBytes, start |-> 0, end |-> 0,
    revoked |-> FALSE, exists |-> FALSE ]
\* uploads and access are the records under the sender "owner" and the one
\* cid: uploads["owner"][cidHash] and access[_fileKey("owner", cidHash)];
\* others holds the same two for every other sender
NoRegistry ==
  [ now |-> 0, uploads |-> NoFile, access |-> [a \in Accounts |-> NoAccess],
    others |-> [s \in Accounts \ {"owner"} |->
                  [ uploads |-> NoFile,
                    access |-> [a \in Accounts |-> NoAccess] ]] ]

\* uploads[msg.sender][cidHash] and access[_fileKey(msg.sender, cidHash)]:
\* the storage a call of `sender` reads and writes
Slot(reg, sender) ==
  IF sender = "owner" THEN [uploads |-> reg.uploads, access |-> reg.access]
  ELSE reg.others[sender]
\* a store keyed by the cid alone: every sender writes the owner's records
StoreShared(reg, sender, slot) ==
  [reg EXCEPT !.uploads = slot.uploads, !.access = slot.access]
Store(reg, sender, slot) ==
  IF sender = "owner"
    THEN [reg EXCEPT !.uploads = slot.uploads, !.access = slot.access]
  ELSE [reg EXCEPT !.others[sender] = slot]

\* return (arec.start <= nowTs && nowTs < arec.end)
InWindowClosed(start, end, nowTs) == start <= nowTs /\ nowTs <= end
InWindow(start, end, nowTs) == start <= nowTs /\ nowTs < end

\* isAccessActive(owner, cid, grantee) read from storage reg
isAccessActive(reg, grantee) ==
  IF ~reg.uploads.exists \/ reg.uploads.revoked THEN FALSE
  ELSE IF ~reg.access[grantee].exists \/ reg.access[grantee].revoked THEN FALSE
  ELSE InWindow(reg.access[grantee].start, reg.access[grantee].end, reg.now)

\* getAccess(owner, cid, grantee) and getFile(owner, cid)
getAccess(reg, grantee) == reg.access[grantee]
getFile(reg) == reg.uploads

\* -------------------------------------------------------- key encapsulation
\* utils/encryption.ts encryptForRecipient / decryptForRecipient.  nacl.box
\* is the library's x25519-xsalsa20-poly1305; it is modelled with a
\* Diffie-Hellman shared secret in a small group, a keystream and a 16-byte
\* authenticator over that secret, the nonce and the ciphertext.  A key is a
\* 32-byte array whose first byte holds the scalar or the group element.
\* Text is a sequence of character codes; base64 text is a sequence of
\* sextets, 64 standing for the padding character.
MaxBoxKeys == 3         \* secret scalars 1..MaxBoxKeys
MaxKeyText == 2         \* a FileKey text has 1..MaxKeyText characters
BoxKeyLength == 32
BoxNonceLength == 24
BoxOverhead == 16

\* crypto_scalarmult: the group element p raised to the scalar n
ScalarMult(n, p) == (p ^ n) % 23

KeyBytes(n) == [i \in 1..BoxKeyLength |-> IF i = 1 THEN n ELSE 0]

\* nacl.box.keyPair.fromSecretKey(secretKey).publicKey
PublicKey(secretKey) == KeyBytes(ScalarMult(secretKey[1], 9))

\* the authenticator and the keystream of crypto_secretbox under the shared
\* secret of (theirPublicKey, mySecretKey)
BoxAuth(shared, nonce, ct) ==
  LET h == GcmMix(nonce \o ct, shared) IN
  [j \in 1..BoxOverhead |-> IF j % 2 = 1 THEN (h + j) % 256
                            ELSE ((h \div 256) + j) % 256]
BoxStream(shared, nonce, j) ==
  (shared * 17 + nonce[1] * 3 + nonce[BoxNonceLength] + j * 29) % 256

\* nacl.box(msg, nonce, theirPublicKey, mySecretKey)
box(msg, nonce, theirPublicKey, mySecretKey) ==
  LET shared == ScalarMult(mySecretKey[1], theirPublicKey[1])
      ct == [j \in 1..Len(msg) |-> (msg[j] + BoxStream(shared, nonce, j)) % 256]
  IN  BoxAuth(shared, nonce, ct) \o ct

\* an open that returns the bytes without verifying the authenticator
boxOpenUnchecked(c, nonce, theirPublicKey, mySecretKey) ==
  LET shared == ScalarMult(mySecretKey[1], theirPublicKey[1])
      ct == SubSeq(c, BoxOverhead + 1, Len(c))
  IN  [ ok |-> TRUE,
        data |-> [j \in 1..Len(ct) |->
                    (ct[j] + 256 - BoxStream(shared, nonce, j)) % 256] ]

\* nacl.box.open(c, nonce, theirPublicKey, mySecretKey): null (ok = FALSE)
\* when the authenticator does not verify; bad sizes throw, which
\* decryptForRecipient reports in the same way
boxOpen(c, nonce, theirPublicKey, mySecretKey) ==
  IF \/ Len(nonce) # BoxNonceLength
     \/ Len(theirPublicKey) # BoxKeyLength
     \/ Len(c) < BoxOverhead
  THEN [ok |-> FALSE, data |-> << >>]
  ELSE LET shared == ScalarMult(mySecretKey[1], theirPublicKey[1])
           ct == SubSeq(c, BoxOverhead + 1, Len(c))
       IN  IF SubSeq(c, 1, BoxOverhead) # BoxAuth(shared, nonce, ct)
           THEN [ok |-> FALSE, data |-> << >>]
           ELSE boxOpenUnchecked(c, nonce, theirPublicKey, mySecretKey)

RECURSIVE encodeBase64(_)
\* tweetnacl-util encodeBase64
encodeBase64(b) ==
  IF Len(b) = 0 THEN << >>
  ELSE IF Len(b) = 1
    THEN << b[1] \div 4, (b[1] % 4) * 16, 64, 64 >>
  ELSE IF Len(b) = 2
    THEN << b[1] \div 4, (b[1] % 4) * 16 + (b[2] \div 16), (b[2] % 16) * 4, 64 >>
  ELSE << b[1] \div 4, (b[1] % 4) * 16 + (b[2] \div 16),
          (b[2] % 16) * 4 + (b[3] \div 64), b[3] % 64 >>
       \o encodeBase64(SubSeq(b, 4, Len(b)))

\* validateBase64 and atob accept the text
ValidBase64(t) ==
  /\ Len(t) % 4 = 0
  /\ \A i \in 1..Len(t) :
       t[i] = 64 => \/ i = Len(t)
                    \/ (i = Len(t) - 1 /\ t[Len(t)] = 64)

RECURSIVE decodeBase64(_)
\* tweetnacl-util decodeBase64 of a text that ValidBase64 accepts
decodeBase64(t) ==
  IF Len(t) = 0 THEN << >>
  ELSE LET b1 == t[1] * 4 + (t[2] \div 16)
           b2 == (t[2] % 16) * 16 + (t[3] \div 4)
           b3 == (t[3] % 4) * 64 + t[4]
       IN  IF t[3] = 64 THEN << b1 >>
           ELSE IF t[4] = 64 THEN << b1, b2 >>
           ELSE << b1, b2, b3 >> \o decodeBase64(SubSeq(t, 5, Len(t)))

\* a thrown Error and the value it carries in err
KemThrows(err) == [ok |-> FALSE, data |-> << >>, err |-> err]

\* encryptForRecipient(recipientPublicKeyBase64, data) with the ephemeral
\* secret key and the nonce that nacl.box.keyPair() and nacl.randomBytes(24)
\* return; data is ASCII text, which decodeUTF8 maps to its character codes
encryptForRecipient(recipientPublicKeyBase64, data, ephemeralSecretKey, nonce) ==
  IF recipientPublicKeyBase64 = << >> THEN KemThrows("Invalid publicKey")
  ELSE IF data = << >> THEN KemThrows("Invalid data")
  ELSE IF \/ ~ValidBase64(recipientPublicKeyBase64)
          \/ Len(decodeBase64(recipientPublicKeyBase64)) # BoxKeyLength
    THEN KemThrows("Failed to parse public key")
  ELSE [ ok |-> TRUE, err |-> "none",
         data |-> [ version |-> "x25519-xsalsa20-poly1305",
                    ephemPublicKey |-> encodeBase64(PublicKey(ephemeralSecretKey)),
                    nonce |-> encodeBase64(nonce),
                    ciphertext |-> encodeBase64(
                      box(data, nonce, decodeBase64(recipientPublicKeyBase64),
                          ephemeralSecretKey)) ] ]

\* decryptForRecipient(encryptedObj, recipientSecretKey)
decryptForRecipient(encryptedObj, recipientSecretKey) ==
  IF encryptedObj.version # "x25519-xsalsa20-poly1305"
    THEN KemThrows("Invalid version")
  ELSE IF \/ encryptedObj.ephemPublicKey = << >>
          \/ encryptedObj.nonce = << >>
          \/ encryptedObj.ciphertext = << >>
    THEN KemThrows("Missing required fields")
  ELSE IF Len(recipientSecretKey) # BoxKeyLength
    THEN KemThrows("Invalid secret key")
  ELSE IF \/ ~ValidBase64(encryptedObj.ephemPublicKey)
          \/ ~ValidBase64(encryptedObj.nonce)
          \/ ~ValidBase64(encryptedObj.ciphertext)
    THEN KemThrows("Decryption failed")
  ELSE LET plaintext == boxOpen(decodeBase64(encryptedObj.ciphertext),
                                decodeBase64(encryptedObj.nonce),
                                decodeBase64(encryptedObj.ephemPublicKey),
                                recipientSecretKey)
       IN  IF ~plaintext.ok THEN KemThrows("Decryption failed")
           ELSE [ok |-> TRUE, data |-> plaintext.data, err |-> "none"]

\* no encapsulation exchange is in progress
NoKem ==
  [ phase |-> "idle", fileKey |-> << >>,
    secretKey |-> [r \in {"owner", "grantee", "other"} |-> 0],
    enc |-> [r \in {"owner", "grantee"} |-> KemThrows("none")],
    mangled |-> "none",
    reader |-> [r \in {"owner", "grantee"} |-> r],
    out |-> [r \in {"owner", "grantee"} |-> KemThrows("none")] ]

\* ------------------------------------------------------------ key derivation
\* keyDerivation.ts.  A signature is the text "0x" followed by hex digits:
\* prefixed says whether the "0x" is there, hex holds the digit values.
\* SHA-256 is the platform's digest, modelled by a hash of the bytes into the
\* secret scalars for which ScalarMult is defined.
MaxSigs == 4            \* signatures a signer may return for the message
SigHexLength == 130     \* a 65-byte ECDSA signature in hex
MinSigHex == 64

RECURSIVE Digest(_, _, _)
\* crypto.subtle.digest('SHA-256', bytes) over bytes[lo..hi], folded by halves
Digest(bytes, lo, hi) ==
  IF lo > hi THEN 0
  ELSE IF lo = hi THEN bytes[lo] + 1
  ELSE LET mid == (lo + hi) \div 2 IN
       (Digest(bytes, lo, mid) * 131 + Digest(bytes, mid + 1, hi) * 7 + 1) % 65521

\* deriveKeyPairFromSignature(signature)
deriveKeyPairFromSignature(signature) ==
  IF ~signature.prefixed THEN KemThrows("Invalid signature format")
  ELSE IF Len(signature.hex) < MinSigHex THEN KemThrows("Invalid signature: too short")
  ELSE IF Len(signature.hex) % 2 # 0 THEN KemThrows("Invalid typed array length")
  ELSE LET signatureBytes == [i \in 1..(Len(signature.hex) \div 2) |->
                                16 * signature.hex[2 * i - 1] + signature.hex[2 * i]]
           seedBytes == KeyBytes(1 + (Digest(signatureBytes, 1, Len(signatureBytes)) % 8))
       IN  [ ok |-> TRUE, err |-> "none",
             data |-> [publicKey |-> PublicKey(seedBytes), secretKey |-> seedBytes] ]

\* what the awaited signer.signMessage(KEY_DERIVATION_MESSAGE) settles with:
\* a signature, or a rejection by the user
SignerOutcomes(account) ==
  { [rejected |-> FALSE, prefixed |-> TRUE,
     hex |-> [i \in 1..SigHexLength |->
                (n * i + IF account = "owner" THEN 0 ELSE 5) % 16]] :
      n \in 1..MaxSigs }
  \cup { [rejected |-> FALSE, prefixed |-> FALSE, hex |-> [i \in 1..SigHexLength |-> 1]],
         [rejected |-> FALSE, prefixed |-> TRUE, hex |-> [i \in 1..(MinSigHex - 2) |-> 1]],
         [rejected |-> TRUE, prefixed |-> TRUE, hex |-> << >>] }

\* requestEncryptionKeypair(signer, account) once signMessage settled
requestEncryptionKeypair(signature) ==
  IF signature.rejected THEN KemThrows("Signature request was rejected")
  ELSE LET keyPair == deriveKeyPairFromSignature(signature) IN
       IF ~keyPair.ok THEN KemThrows("Failed to derive encryption key")
       ELSE [ ok |-> TRUE, err |-> "none",
              data |-> [ publicKeyBase64 |-> encodeBase64(keyPair.data.publicKey),
                         keyPair |-> keyPair.data ] ]

\* a derivation from the signature without its first byte
deriveDecryptionKeypairShifted(signature) ==
  IF signature.rejected THEN KemThrows("Signature request was rejected")
  ELSE LET keyPair == deriveKeyPairFromSignature(
                        [signature EXCEPT !.hex = Tail(Tail(@))]) IN
       IF ~keyPair.ok THEN KemThrows("Failed to derive decryption key")
       ELSE keyPair
\* deriveDecryptionKeypair(signer, account) once signMessage settled
deriveDecryptionKeypair(signature) ==
  IF signature.rejected THEN KemThrows("Signature request was rejected")
  ELSE LET keyPair == deriveKeyPairFromSignature(signature) IN
       IF ~keyPair.ok THEN KemThrows("Failed to derive decryption key")
       ELSE keyPair

\* no key pair was derived yet; stored is what the derivations have written
\* to localStorage or IndexedDB
NoKeys ==
  [ account |-> "owner",
    upload |-> [called |-> FALSE, signature |-> << >>, result |-> KemThrows("none")],
    download |-> [called |-> FALSE, signature |-> << >>, result |-> KemThrows("none")],
    resume |-> [called |-> FALSE, secretKey |-> KeyBytes(0)],
    stored |-> { } ]

\* ------------------------------------------------------------ gateway fetcher
\* utils/ipfsGateway.ts.  A URL is the pair of a gateway of the candidate
\* list and the CID; an error is the record of its name, the keywords its
\* lower-cased message contains and its HTTP status (0 when it has none).
MaxGateways == 3        \* the first MaxGateways entries of the candidate list

\* buildGatewayURLs(cid, path)
buildGatewayURLs(cid) == [n \in 1..MaxGateways |-> [gateway |-> n, cid |-> cid]]

\* classifyError(error): type and retryable
classifyError(error) ==
  IF error.words \cap {"ssl", "tls", "certificate"} # { }
    THEN [type |-> "TLS_ERROR", retryable |-> TRUE]
  ELSE IF error.words \cap {"network", "failed to fetch"} # { } \/ error.name = "TypeError"
    THEN [type |-> "NETWORK_ERROR", retryable |-> TRUE]
  ELSE IF error.words \cap {"timeout", "aborted"} # { } \/ error.name = "AbortError"
    THEN [type |-> "TIMEOUT", retryable |-> TRUE]
  ELSE IF error.words \cap {"cors", "cross-origin"} # { }
    THEN [type |-> "CORS_ERROR", retryable |-> FALSE]
  ELSE IF error.status # 0 \/ "status" \in error.words
    THEN [type |-> "HTTP_ERROR",
          retryable |-> error.status >= 500 \/ error.status = 429]
  ELSE [type |-> "UNKNOWN_ERROR", retryable |-> TRUE]

\* what `await fetch(url, ...)` and the reads of the response settle with:
\* a response (ok is status 200..299; blobOk says whether response.blob()
\* resolves) or a rejection
FetchOutcomes ==
  { [kind |-> "response", status |-> 200, blobOk |-> b, name |-> "Error", words |-> { }] :
      b \in BOOLEAN }
  \cup { [kind |-> "response", status |-> st, blobOk |-> TRUE, name |-> "Error",
          words |-> IF st = 408 THEN {"timeout"} ELSE { }] :
           st \in {400, 404, 408, 429, 500} }
  \cup { [kind |-> "rejection", status |-> 0, blobOk |-> FALSE, name |-> "TypeError",
          words |-> {"failed to fetch"}],
         [kind |-> "rejection", status |-> 0, blobOk |-> FALSE, name |-> "AbortError",
          words |-> {"aborted"}] }

\* no fetch is in progress
NoGateway ==
  [ pc |-> "idle", cid |-> "", urls |-> << >>, i |-> 0, contacted |-> << >>,
    errors |-> << >>, result |-> [url |-> [gateway |-> 0, cid |-> ""], blob |-> 0],
    thrown |-> "none",
    \* the attempt's setTimeout(() => controller.abort(), timeoutMs): "none",
    \* "armed", or "cleared" by clearTimeout(timeoutId)
    timer |-> "none",
    \* the response whose body is being read
    response |-> [kind |-> "none", status |-> 0, blobOk |-> FALSE, name |-> "",
                  words |-> { }] ]

\* the loop is left with these errors: `All ${urls.length} IPFS gateways
\* failed ...` is thrown with error.errors = errors
AllFailed(g, errors) ==
  [g EXCEPT !.pc = "thrown", !.errors = errors, !.thrown = "All gateways failed"]

\* a `continue` that starts over with the first candidate
ContinueFromFirst(g, errors) ==
  IF g.i + 1 > Len(g.urls) THEN AllFailed(g, errors)
  ELSE [g EXCEPT !.pc = "fetching", !.timer = "armed", !.i = @ + 1,
                 !.errors = errors, !.contacted = Append(@, g.urls[1])]
\* `continue`: the next iteration fetches urls[i + 1], or the loop ends
Continue(g, errors) ==
  IF g.i + 1 > Len(g.urls) THEN AllFailed(g, errors)
  ELSE [g EXCEPT !.pc = "fetching", !.timer = "armed", !.i = @ + 1,
                 !.errors = errors, !.contacted = Append(@, g.urls[g.i + 1])]

\* ----------------------------------------------------------------- transfer
MaxRetries == 2         \* opts.maxRetries is 0..MaxRetries
MaxFileSize == 3        \* file.size is 0..MaxFileSize
MaxChunkSize == 2       \* opts.chunkSize is 1..MaxChunkSize

\* no transfer is in progress
NoTransfer ==
  [ pc |-> "idle", flow |-> "none", impl |-> "none", thrown |-> "none",
    maxRetries |-> 0, attempt |-> 0,
    \* the answer to each POST sent so far and the delay slept after it
    answers |-> << >>, slept |-> << >>,
    \* download: metadata.chunks.length, the loop index, the chunk indices
    \* fetched so far, whether a file picked with showSaveFilePicker is the
    \* sink, the plaintext chunks handed to writable.write, and the output:
    \* "none", "picked" (a file handle with an open writable) or "saved"
    n |-> 0, i |-> 0, fetched |-> << >>, useFs |-> FALSE, written |-> 0,
    output |-> "none",
    \* round trip: the file's bytes, opts.chunkSize, the AES key, the packed
    \* chunks held by IPFS (the cid of a chunk is its position), the
    \* published metadata and the bytes the download has put together
    file |-> << >>, chunkSize |-> 1, key |-> NoKey, ipfs |-> << >>,
    metadata |-> [type |-> "none", filename |-> "", chunks |-> << >>],
    combined |-> << >> ]

\* ---------------------------------------------------------- ingestion proxy
\* chunkedService.js, the Express proxy: verifyHmac and the nonceStore.
\* Time is counted in units of 5 minutes.
MaxClock == 3           \* the clock runs over 0..MaxClock
MaxNonceIds == 3        \* nonces 1..MaxNonceIds
MAX_NONCES == 2         \* the cap of the nonceStore (10000 in the program)
FreshnessWindow == 1    \* `age > 5 * 60 * 1000` is rejected
NONCE_TTL == 2          \* 10 * 60 * 1000

\* the proxy after start-up: nonceStore is the Map in insertion order, an
\* entry being [nonce, at]; accepted[n] is the x-upload-ts of the request
\* accepted last with nonce n (-1: none), and replayed holds the nonces of
\* the requests that were accepted again with the same x-upload-ts
NoProxy ==
  [ secret |-> TRUE, now |-> 0, nonceStore |-> << >>, answer |-> "none",
    accepted |-> [n \in 1..MaxNonceIds |-> -1], replayed |-> { } ]

\* ------------------------------------------------------- download / share
\* the client is not downloading or sharing anything
\* pc is the await the handler is suspended at, flow the handler that runs:
\* "openFile" (App.tsx), "handleDownload" (chunkedFileDownloader.js) or
\* "handleGrantAccess" (ShareModal); granteeAddr, start, end and error are
\* the ShareModal's form state
NoClient ==
  [ pc |-> "idle", flow |-> "none", account |-> "owner", isOwner |-> FALSE,
    hasAccess |-> FALSE, queried |-> FALSE, encryptedKeyBytes |-> EmptyBytes,
    granteeAddr |-> "", start |-> 0, end |-> 0, error |-> "none" ]

\* ------------------------------------------------------------------- state
VARIABLES
  variant,      \* which implementation runs
  idb,          \* the persistent store: session key -> snapshot
  ledger,       \* AccessLedger: session key -> registered owner EncapsulatedKey
  numSess,      \* session keys generated so far
  runs,         \* upload runs started so far
  keysMade,     \* AES keys generated so far
  console,      \* the console messages that show characters of a raw key:
                \* [msg, key, chars] = the first `chars` base64 characters
  status,       \* "idle" | "running" | "published" | "returned" | "failed"
  sessionKey,   \* the run's session key
  totalChunks,  \* the run's totalChunks
  concurrency,  \* the run's concurrency
  autoRegister, \* opts.autoRegister
  resumed,      \* the run loaded an existing snapshot
  loaded,       \* the snapshot the run loaded (NoSession on a fresh run)
  prompt,       \* the wallet's answer to the request of the run's prelude:
                \* "none" (no request made), "approved" or "rejected"
  decapsulated, \* the run's key came from decapsulating loaded.encryptedAesForOwner
  state,        \* the in-memory session state object
  key,          \* the in-memory raw AES key (NoKey = null)
  nextIndex,    \* the pool's shared cursor
  results,      \* results[i]: index -> cid
  pc,           \* worker -> position
  wi,           \* worker -> claimed index
  wkey,         \* worker -> key its current chunk is encrypted under
  timer,        \* _persistTimers: session key -> "none" | "cur" | "old"
  oldState,     \* session key -> the state object an "old" timer closes over
  sent,         \* index -> successful transmissions in this run
  writes,       \* index -> completion-map writes in this run
  cipher,       \* one encryptChunk / decryptChunk exchange
  registry,     \* the TimeBoundFileRegistry contract and the block time
  client,       \* one download (openFile / handleDownload) or share attempt
  kem,          \* one key encapsulation exchange between owner and grantee
  keys,         \* the key pairs an account derived at upload and at download
  gw,           \* one fetchFromIPFSGateway call
  xfer          \* one transfer: a chunk POST with its retries, or one
                \* chunkedDownloadFile call
  , proxy       \* the ingestion proxy's clock and nonceStore

vars == << variant, console, idb, ledger, numSess, runs, keysMade, status, sessionKey,
           totalChunks, concurrency, autoRegister, resumed, loaded,
           decapsulated, prompt, state, key, nextIndex, results, pc, wi, wkey, timer,
           oldState, sent, writes, cipher, registry, client, kem, keys, gw,
           xfer, proxy >>

\* what an upload run never touches
sideVars == << cipher, registry, client, kem, keys, gw, xfer, proxy >>

poolVars == << nextIndex, results, pc, wi, wkey, sent, writes >>

\* no upload is in progress: the state after the module is loaded
IdleUpload ==
  /\ idb = [s \in Sessions |-> NoSession]
  /\ ledger = [s \in Sessions |-> NoEnc]
  /\ numSess = 0
  /\ runs = 0
  /\ keysMade = 0
  /\ console = { }
  /\ status = "idle"
  /\ sessionKey = 0
  /\ totalChunks = 0
  /\ concurrency = 1
  /\ autoRegister = FALSE
  /\ resumed = FALSE
  /\ loaded = NoSession
  /\ decapsulated = FALSE
  /\ prompt = "none"
  /\ state = NoSession
  /\ key = NoKey
  /\ nextIndex = 0
  /\ results = NoUploaded
  /\ pc = [w \in Workers |-> "idle"]
  /\ wi = [w \in Workers |-> NoIndex]
  /\ wkey = [w \in Workers |-> NoKey]
  /\ timer = [s \in Sessions |-> "none"]
  /\ oldState = [s \in Sessions |-> NoSession]
  /\ sent = [i \in Idx |-> 0]
  /\ writes = [i \in Idx |-> 0]

Init ==
  /\ variant \in Variants
  /\ IdleUpload
  /\ cipher = NoCipher
  /\ registry = NoRegistry
  /\ client = NoClient
  /\ kem = NoKem
  /\ keys = NoKeys
  /\ gw = NoGateway
  /\ xfer = NoTransfer
  /\ proxy = NoProxy

\* ------------------------------------------------------------ run prelude
CanStart ==
  /\ runs < MaxRuns
  /\ status \in {"idle", "returned", "failed"}
  /\ \A w \in Workers : pc[w] \in {"idle", "done", "failed"}

RECURSIVE FoldClaims(_, _, _, _, _, _, _, _)
\* new Array(concurrency).fill(0).map(() => worker()): each worker runs
\* synchronously up to its first await, so the first claims happen in
\* worker order before anything else
FoldClaims(v, w, C, n, up, T, pcs, wis) ==
  IF w > C THEN [pc |-> pcs, wi |-> wis, next |-> n]
  ELSE LET c == Claim(v, n, up, T) IN
       FoldClaims(v, w + 1, C, c.next, up, T,
                  [pcs EXCEPT ![w] = IF c.stop THEN "done" ELSE "read"],
                  [wis EXCEPT ![w] = c.i])

\* a pending debounce timer outlives the run that scheduled it
AgeTimers ==
  /\ timer' = [s \in Sessions |-> IF timer[s] = "cur" THEN "old" ELSE timer[s]]
  /\ oldState' = [s \in Sessions |-> IF timer[s] = "cur" THEN state ELSE oldState[s]]

\* the workers are started over session state st with in-memory key k
Launch(T, C, st, k) ==
  LET f == FoldClaims(variant, 1, C, 0, st.uploaded, T,
                      [w \in Workers |-> "idle"], [w \in Workers |-> NoIndex]) IN
  /\ status' = "running"
  /\ state' = st
  /\ key' = k
  /\ nextIndex' = f.next
  /\ pc' = f.pc
  /\ wi' = f.wi
  /\ wkey' = [w \in Workers |-> NoKey]
  /\ results' = st.uploaded
  /\ sent' = [i \in Idx |-> 0]
  /\ writes' = [i \in Idx |-> 0]

\* the run throws before any worker is started
Throw(st, k) ==
  /\ status' = "failed"
  /\ state' = st
  /\ key' = k
  /\ nextIndex' = 0
  /\ pc' = [w \in Workers |-> "idle"]
  /\ wi' = [w \in Workers |-> NoIndex]
  /\ wkey' = [w \in Workers |-> NoKey]
  /\ results' = st.uploaded
  /\ sent' = [i \in Idx |-> 0]
  /\ writes' = [i \in Idx |-> 0]

\* chunkedUpload.ts chunkedUploadFile, up to the start of the workers.
\* signer: opts.signer present; approve: the wallet answers the signature
\* (or eth_decrypt) request.
TsStart ==
  /\ variant = "ts"
  /\ CanStart
  /\ keysMade < MaxKeys
  /\ \E T \in 0..MaxChunks, C \in 1..MaxConcurrency,
        auto \in BOOLEAN, signer \in BOOLEAN, approve \in BOOLEAN :
       LET sk == numSess + 1
           found == idb[sk] # NoSession
           st0 == IF found THEN idb[sk] ELSE NewState(T)
           k == keysMade + 1
           st1 == [st0 EXCEPT !.encryptedAesForOwner = EncFor("sig", k)]
       IN
       /\ runs' = runs + 1
       /\ numSess' = sk
       /\ sessionKey' = sk
       /\ totalChunks' = T
       /\ concurrency' = C
       /\ autoRegister' = auto
       /\ resumed' = found
       /\ loaded' = idb[sk]
       /\ AgeTimers
       /\ UNCHANGED << sideVars, variant, ledger >>
       /\ prompt' = IF (auto /\ ~signer) \/ (st0.encryptedAesForOwner = NoEnc /\ ~signer)
                      THEN "none"
                    ELSE IF approve THEN "approved" ELSE "rejected"
       /\ IF auto /\ ~signer
          THEN \* "autoRegister requires signer and contractAddress"
               /\ Throw(NoSession, NoKey)
               /\ decapsulated' = FALSE
               /\ UNCHANGED << idb, keysMade, console >>
          ELSE IF st0.encryptedAesForOwner # NoEnc
          THEN \* resume: eth_decrypt of the persisted encapsulation
               /\ UNCHANGED << idb, keysMade, console >>
               /\ IF approve /\ st0.encryptedAesForOwner.pub = "mm"
                  THEN /\ decapsulated' = TRUE
                       /\ Launch(T, C, st0, st0.encryptedAesForOwner.key)
                  ELSE /\ decapsulated' = FALSE
                       /\ Throw(st0, NoKey)
          ELSE \* fresh key, encapsulated for the owner when a signer exists
               /\ keysMade' = k
               /\ decapsulated' = FALSE
               \* console.log('[Upload] Generated and exported AES key:',
               \* {keyPrefix: aesKeyBase64.substring(0, 20) + '...'}), and
               \* once the key pair is derived console.log('[Upload]
               \* Encrypting AES key for owner ...', {aesKeyPrefix:
               \* aesKeyBase64.substring(0, 20)})
               /\ console' = console
                    \cup {[msg |-> "Generated and exported AES key",
                           key |-> k, chars |-> 20]}
                    \cup IF signer /\ approve
                           THEN {[msg |-> "Encrypting AES key for owner",
                                  key |-> k, chars |-> 20]}
                         ELSE { }
               /\ IF signer /\ approve
                  THEN /\ idb' = [idb EXCEPT ![sk] = TsSnapshot(st1, k)]
                       /\ Launch(T, C, st1, k)
                  ELSE IF signer /\ auto
                  THEN /\ Throw(st0, k)
                       /\ UNCHANGED idb
                  ELSE /\ Launch(T, C, st0, k)
                       /\ UNCHANGED idb

\* chunkedService.js chunkedUploadFile, up to the start of the workers.
\* pk: opts.persistKey (a stored session key, or none); g: what the free
\* identifier resumeAesKeyBase64 resolves to in the global scope.
SvcStart ==
  /\ variant = "service"
  /\ CanStart
  /\ \E T \in 0..MaxChunks, C \in 1..MaxConcurrency,
        pk \in 0..numSess, g \in {"undeclared", "null", "decrypted"} :
       LET sk == IF pk # 0 THEN pk ELSE numSess + 1
           found == idb[sk] # NoSession
           existing == IF found THEN idb[sk] ELSE NewState(T)
           st == [NewState(T) EXCEPT
                    !.uploaded = existing.uploaded,
                    !.encryptedAesForOwner = existing.encryptedAesForOwner]
       IN
       /\ sk \in Sessions
       /\ g = "decrypted" => existing.encryptedAesForOwner # NoEnc
       /\ runs' = runs + 1
       /\ numSess' = IF pk # 0 THEN numSess ELSE sk
       /\ sessionKey' = sk
       /\ totalChunks' = T
       /\ concurrency' = C
       /\ autoRegister' = FALSE
       /\ resumed' = found
       /\ loaded' = idb[sk]
       /\ AgeTimers
       /\ idb' = [idb EXCEPT ![sk] = StripRawKey(st)]
       /\ prompt' = "none"
       /\ UNCHANGED << sideVars, variant, console, ledger, keysMade >>
       /\ IF g = "undeclared"
          THEN \* ReferenceError at `resumeAesKeyBase64 || null`
               /\ decapsulated' = FALSE
               /\ Throw(st, NoKey)
          ELSE IF g = "decrypted"
          THEN /\ decapsulated' = TRUE
               /\ Launch(T, C, st, existing.encryptedAesForOwner.key)
          ELSE /\ decapsulated' = FALSE
               /\ Launch(T, C, st, NoKey)

\* chunkedFileUploader.js chunkedUploadFile, up to the start of the workers.
\* approve: MetaMask answers eth_getEncryptionPublicKey (or eth_decrypt).
UplStart ==
  /\ variant = "uploader"
  /\ CanStart
  /\ keysMade < MaxKeys
  /\ \E T \in 0..MaxChunks, C \in 1..MaxConcurrency,
        auto \in BOOLEAN, signer \in BOOLEAN, approve \in BOOLEAN :
       LET sk == numSess + 1
           found == idb[sk] # NoSession
           st0 == IF found THEN idb[sk] ELSE NewState(T)
           k == keysMade + 1
           st1 == [st0 EXCEPT !.encryptedAesForOwner = EncFor("mm", k)]
       IN
       /\ runs' = runs + 1
       /\ numSess' = sk
       /\ sessionKey' = sk
       /\ totalChunks' = T
       /\ concurrency' = C
       /\ autoRegister' = auto
       /\ resumed' = found
       /\ loaded' = idb[sk]
       /\ AgeTimers
       /\ UNCHANGED << sideVars, variant, console, ledger >>
       /\ prompt' = IF auto /\ ~signer THEN "none"
                    ELSE IF approve THEN "approved" ELSE "rejected"
       /\ IF auto /\ ~signer
          THEN /\ Throw(NoSession, NoKey)
               /\ decapsulated' = FALSE
               /\ UNCHANGED << idb, keysMade >>
          ELSE IF st0.encryptedAesForOwner # NoEnc
          THEN /\ UNCHANGED << idb, keysMade >>
               /\ IF approve /\ st0.encryptedAesForOwner.pub = "mm"
                  THEN /\ decapsulated' = TRUE
                       /\ Launch(T, C, st0, st0.encryptedAesForOwner.key)
                  ELSE /\ decapsulated' = FALSE
                       /\ Throw(st0, NoKey)
          ELSE /\ keysMade' = k
               /\ decapsulated' = FALSE
               /\ IF approve
                  THEN /\ idb' = [idb EXCEPT ![sk] = UplSnapshot(st1, k)]
                       /\ Launch(T, C, st1, k)
                  ELSE /\ idb' = [idb EXCEPT ![sk] = UplSnapshot(st0, k)]
                       /\ Launch(T, C, st0, k)

\* --------------------------------------------------------------- workers
Running(w) == w \in 1..concurrency /\ status # "idle"

\* a rejected worker rejects Promise.all: chunkedUploadFile throws, the
\* other workers are not told
PoolAfterReject == IF status = "running" THEN "failed" ELSE status

runVars == << sideVars, variant, console, ledger, numSess, runs, sessionKey, totalChunks,
              concurrency, autoRegister, resumed, loaded, decapsulated, prompt,
              oldState >>

\* where a worker goes once `await processChunk(i)` returned: around the
\* loop (while (true) / while (!aborted), aborted never being set)
AfterChunkQuit(v) == "done"
AfterChunk(v) == "claim"

\* a later turn of the loop: the uploader's worker first runs the tail of the
\* previous turn, `if (nextIndex >= totalChunks) return`, in the same
\* synchronous stretch
ClaimAgain(v, n, up, T) ==
  IF v = "uploader" /\ n >= T
  THEN [i |-> NoIndex, next |-> n, stop |-> TRUE]
  ELSE Claim(v, n, up, T)

\* worker(): the synchronous claim at the top of the loop
WorkerClaim(w) ==
  /\ Running(w)
  /\ pc[w] = "claim"
  /\ LET c == ClaimAgain(variant, nextIndex, state.uploaded, totalChunks) IN
     /\ nextIndex' = c.next
     /\ pc' = [pc EXCEPT ![w] = IF c.stop THEN "done" ELSE "read"]
     /\ wi' = [wi EXCEPT ![w] = c.i]
  /\ UNCHANGED << runVars, idb, keysMade, status, state, key, results, wkey,
                  timer, sent, writes >>

\* the service's key decision without the test of state.encryptedAesForOwner
SvcKeyDecisionNoCheck(k, enc) ==
  IF k # NoKey THEN "use" ELSE "generate"

\* chunkedService.js processChunk: `if (!inMemoryAesKeyBase64) { if
\* (state.encryptedAesForOwner) throw ...; generate } else { import }`
SvcKeyDecision(k, enc) ==
  IF k # NoKey THEN "use"
  ELSE IF enc # NoEnc THEN "refuse"
  ELSE "generate"

\* chunkedService.js processChunk after `await slice.arrayBuffer()`: use the
\* in-memory key, or start generating one, or refuse to resume without it
SvcRead(w) ==
  /\ variant = "service"
  /\ Running(w)
  /\ pc[w] = "read"
  /\ LET d == SvcKeyDecision(key, state.encryptedAesForOwner) IN
     IF d = "use"
     THEN /\ wkey' = [wkey EXCEPT ![w] = key]
          /\ pc' = [pc EXCEPT ![w] = "upload"]
          /\ UNCHANGED << status, wi >>
     ELSE IF d = "generate"
     THEN /\ pc' = [pc EXCEPT ![w] = "genkey"]
          /\ UNCHANGED << status, wkey, wi >>
     ELSE /\ pc' = [pc EXCEPT ![w] = "failed"]
          /\ wi' = [wi EXCEPT ![w] = NoIndex]
          /\ status' = PoolAfterReject
          /\ UNCHANGED wkey
  /\ UNCHANGED << runVars, idb, keysMade, state, key, nextIndex, results,
                  timer, sent, writes >>

\* chunkedService.js processChunk: inMemoryAesKeyBase64 = export(genKey)
SvcGenKey(w) ==
  /\ Running(w)
  /\ pc[w] = "genkey"
  /\ keysMade < MaxKeys
  /\ keysMade' = keysMade + 1
  /\ key' = keysMade + 1
  /\ wkey' = [wkey EXCEPT ![w] = keysMade + 1]
  /\ pc' = [pc EXCEPT ![w] = "upload"]
  /\ UNCHANGED << runVars, idb, status, state, nextIndex, results, wi, timer,
                  sent, writes >>

\* chunkedService.js processChunk: encryptChunk and uploadChunkWithRetries
\* succeed; state.uploaded[i], schedulePersist, results[i]
SvcUploadOk(w) ==
  /\ variant = "service"
  /\ Running(w)
  /\ pc[w] = "upload"
  /\ sent' = [sent EXCEPT ![wi[w]] = @ + 1]
  /\ state' = [state EXCEPT !.uploaded[wi[w]] = wkey[w]]
  /\ writes' = [writes EXCEPT ![wi[w]] = @ + 1]
  /\ timer' = [timer EXCEPT ![sessionKey] = "cur"]
  /\ results' = [results EXCEPT ![wi[w]] = wkey[w]]
  /\ pc' = [pc EXCEPT ![w] = AfterChunk(variant)]
  /\ wi' = [wi EXCEPT ![w] = NoIndex]
  /\ wkey' = [wkey EXCEPT ![w] = NoKey]
  /\ UNCHANGED << runVars, idb, keysMade, status, key, nextIndex >>

\* the key the chunk of a chunkedUpload.ts / chunkedFileUploader.js worker is
\* encrypted under: aesCryptoKey, which the uploader recovers with
\* eth_decrypt when it is null
ChunkKey ==
  IF key # NoKey THEN key
  ELSE IF variant = "uploader" /\ state.encryptedAesForOwner.pub = "mm"
  THEN state.encryptedAesForOwner.key
  ELSE NoKey

\* chunkedUpload.ts / chunkedFileUploader.js processChunk from
\* `await slice.arrayBuffer()` to the return of uploadChunkWithRetries; the
\* uploader then records the completion in memory
WorkerUploadOk(w) ==
  /\ variant # "service"
  /\ Running(w)
  /\ pc[w] = "read"
  /\ ChunkKey # NoKey
  /\ key' = ChunkKey
  /\ wkey' = [wkey EXCEPT ![w] = ChunkKey]
  /\ sent' = [sent EXCEPT ![wi[w]] = @ + 1]
  /\ IF variant = "ts"
     THEN /\ pc' = [pc EXCEPT ![w] = "check"]
          /\ UNCHANGED << state, writes >>
     ELSE /\ pc' = [pc EXCEPT ![w] = "persist"]
          /\ state' = [state EXCEPT !.uploaded[wi[w]] = ChunkKey]
          /\ writes' = [writes EXCEPT ![wi[w]] = @ + 1]
  /\ UNCHANGED << runVars, idb, keysMade, status, nextIndex, results, wi,
                  timer >>

\* processChunk throws: no key, or uploadChunkWithRetries exhausts its retries
WorkerUploadFail(w) ==
  /\ Running(w)
  /\ \/ variant = "service" /\ pc[w] = "upload"
     \/ variant # "service" /\ pc[w] = "read"
  /\ pc' = [pc EXCEPT ![w] = "failed"]
  /\ wi' = [wi EXCEPT ![w] = NoIndex]
  /\ wkey' = [wkey EXCEPT ![w] = NoKey]
  /\ status' = PoolAfterReject
  /\ UNCHANGED << runVars, idb, keysMade, state, key, nextIndex, results,
                  timer, sent, writes >>

\* chunkedUpload.ts processChunk after `await get(sessionKey)`
TsCheck(w) ==
  /\ variant = "ts"
  /\ Running(w)
  /\ pc[w] = "check"
  /\ IF Has(idb[sessionKey].uploaded, wi[w])
     THEN /\ results' = [results EXCEPT ![wi[w]] = idb[sessionKey].uploaded[wi[w]]]
          /\ pc' = [pc EXCEPT ![w] = AfterChunk(variant)]
          /\ wi' = [wi EXCEPT ![w] = NoIndex]
          /\ wkey' = [wkey EXCEPT ![w] = NoKey]
          /\ UNCHANGED << state, writes >>
     ELSE /\ state' = [state EXCEPT !.uploaded[wi[w]] = wkey[w]]
          /\ writes' = [writes EXCEPT ![wi[w]] = @ + 1]
          /\ pc' = [pc EXCEPT ![w] = "persist"]
          /\ UNCHANGED << results, wi, wkey >>
  /\ UNCHANGED << runVars, idb, keysMade, status, key, nextIndex, timer, sent >>

\* `await set(sessionKey, state)` / `await idbSet(sessionKey, state)`, then
\* results[i] = cid
WorkerPersist(w) ==
  /\ Running(w)
  /\ pc[w] = "persist"
  /\ idb' = [idb EXCEPT ![sessionKey] = Snapshot(variant, state, key)]
  /\ results' = [results EXCEPT ![wi[w]] = wkey[w]]
  /\ pc' = [pc EXCEPT ![w] = AfterChunk(variant)]
  /\ wi' = [wi EXCEPT ![w] = NoIndex]
  /\ wkey' = [wkey EXCEPT ![w] = NoKey]
  /\ UNCHANGED << runVars, keysMade, status, state, key, nextIndex, timer,
                  sent, writes >>

\* the 800 ms timer of schedulePersist fires
TimerFire(s) ==
  /\ timer[s] # "none"
  /\ idb' = [idb EXCEPT ![s] =
               SvcSnapshot(IF timer[s] = "cur" THEN state ELSE oldState[s], key)]
  /\ timer' = [timer EXCEPT ![s] = "none"]
  /\ UNCHANGED << runVars, keysMade, status, state, key, poolVars >>

\* ---------------------------------------------------- manifest, registration
\* chunks.push({ index: i, cid: results[i], ... }) for i in 0..totalChunks-1
Manifest(res, T) ==
  [set |-> TRUE, chunks |-> [j \in 1..T |-> << j - 1, res[j - 1] >>]]

\* Promise.all resolved: build and upload the metadata, persist metadataCid
Publish ==
  /\ status = "running"
  /\ \A w \in 1..concurrency : pc[w] = "done"
  /\ \E ok \in BOOLEAN :
       IF ok /\ \A i \in 0..(totalChunks - 1) : Has(state.uploaded, i)
       THEN LET st == [state EXCEPT !.metadataCid = Manifest(results, totalChunks)] IN
            /\ state' = st
            /\ idb' = [idb EXCEPT ![sessionKey] = Snapshot(variant, st, key)]
            /\ status' = IF variant = "service" THEN "returned" ELSE "published"
            /\ key' = IF variant = "service" THEN NoKey ELSE key
       ELSE /\ status' = "failed"
            /\ UNCHANGED << state, idb, key >>
  /\ UNCHANGED << runVars, keysMade, poolVars, timer >>

\* chunkedUpload.ts: auto-register, clear the in-memory keys, return
TsFinalize ==
  /\ variant = "ts"
  /\ status = "published"
  /\ \E ok \in BOOLEAN :
       IF autoRegister /\ state.encryptedAesForOwner # NoEnc
       THEN IF ok
            THEN LET st == [state EXCEPT !.registered = TRUE] IN
                 /\ ledger' = [ledger EXCEPT ![sessionKey] = state.encryptedAesForOwner]
                 /\ state' = st
                 /\ idb' = [idb EXCEPT ![sessionKey] = TsSnapshot(st, key)]
                 /\ key' = NoKey
                 /\ status' = "returned"
            ELSE /\ status' = "failed"
                 /\ UNCHANGED << ledger, state, idb, key >>
       ELSE /\ key' = NoKey
            /\ status' = "returned"
            /\ UNCHANGED << ledger, state, idb >>
  /\ UNCHANGED << sideVars, variant, console, numSess, runs, sessionKey, totalChunks, concurrency,
                  autoRegister, resumed, loaded, decapsulated, prompt, oldState,
                  keysMade, poolVars, timer >>

\* chunkedFileUploader.js: auto-register (encapsulating now when no
\* encapsulation exists yet), discard the keys, return
UplFinalize ==
  /\ variant = "uploader"
  /\ status = "published"
  /\ \E approve \in BOOLEAN, ok \in BOOLEAN :
       IF autoRegister
       THEN IF state.encryptedAesForOwner = NoEnc /\ ~approve
            THEN /\ status' = "failed"
                 /\ UNCHANGED << ledger, state, idb, key >>
            ELSE LET st1 == IF state.encryptedAesForOwner = NoEnc
                            THEN [state EXCEPT !.encryptedAesForOwner = EncFor("mm", key)]
                            ELSE state
                     st2 == [st1 EXCEPT !.registered = TRUE]
                 IN
                 IF ok
                 THEN /\ ledger' = [ledger EXCEPT ![sessionKey] = st1.encryptedAesForOwner]
                      /\ state' = st2
                      /\ idb' = [idb EXCEPT ![sessionKey] = UplSnapshot(st2, key)]
                      /\ key' = NoKey
                      /\ status' = "returned"
                 ELSE /\ state' = st1
                      /\ idb' = [idb EXCEPT ![sessionKey] = UplSnapshot(st1, key)]
                      /\ status' = "failed"
                      /\ UNCHANGED << ledger, key >>
       ELSE /\ key' = NoKey
            /\ status' = "returned"
            /\ UNCHANGED << ledger, state, idb >>
  /\ UNCHANGED << sideVars, variant, console, numSess, runs, sessionKey, totalChunks, concurrency,
                  autoRegister, resumed, loaded, decapsulated, prompt, oldState,
                  keysMade, poolVars, timer >>

\* the page is closed or reloaded: memory and timers are gone, the store stays
Interrupt ==
  /\ status # "idle" \/ \E s \in Sessions : timer[s] # "none"
  /\ status' = "idle"
  /\ state' = NoSession
  /\ key' = NoKey
  /\ nextIndex' = 0
  /\ results' = NoUploaded
  /\ pc' = [w \in Workers |-> "idle"]
  /\ wi' = [w \in Workers |-> NoIndex]
  /\ wkey' = [w \in Workers |-> NoKey]
  /\ timer' = [s \in Sessions |-> "none"]
  /\ oldState' = [s \in Sessions |-> NoSession]
  /\ sent' = [i \in Idx |-> 0]
  /\ writes' = [i \in Idx |-> 0]
  /\ UNCHANGED << sideVars, variant, console, idb, ledger, numSess, runs, keysMade, sessionKey,
                  totalChunks, concurrency, autoRegister, resumed, loaded,
                  decapsulated, prompt >>

\* the raw keys a caller of registerSessionOnChain can hold for session s:
\* the keys its chunks were encrypted under
SessionKeys(s) == { idb[s].uploaded[i] : i \in Idx } \ {NoKey}

\* chunkedService.js registerSessionOnChain(sessionKey, contractAddress,
\* signer, rawAesBase64): load the session, require its metadataCid,
\* encapsulate rawAesBase64 for the owner, call contract.uploadFile, write
\* the loaded copy back with encryptedAesForOwner
RegisterSessionOnChain ==
  /\ variant = "service"
  /\ status \in {"idle", "returned", "failed"}
  /\ \E s \in 1..numSess, ok \in BOOLEAN :
       /\ idb[s] # NoSession
       /\ idb[s].metadataCid.set
       /\ \E k \in SessionKeys(s) :
            LET e == EncFor("mm", k) IN
            IF ok
            THEN /\ ledger' = [ledger EXCEPT ![s] = e]
                 /\ idb' = [idb EXCEPT ![s] =
                              StripRawKey([idb[s] EXCEPT !.encryptedAesForOwner = e,
                                                         !.registered = TRUE])]
            ELSE UNCHANGED << ledger, idb >>
  /\ UNCHANGED << sideVars, variant, console, numSess, runs, keysMade, status, sessionKey,
                  totalChunks, concurrency, autoRegister, resumed, loaded,
                  decapsulated, prompt, state, key, poolVars, timer, oldState >>

Next ==
  \/ TsStart \/ SvcStart \/ UplStart
  \/ \E w \in Workers :
       \/ WorkerClaim(w) \/ SvcRead(w) \/ SvcGenKey(w) \/ SvcUploadOk(w)
       \/ WorkerUploadOk(w) \/ WorkerUploadFail(w)
       \/ TsCheck(w) \/ WorkerPersist(w)
  \/ \E s \in Sessions : TimerFire(s)
  \/ Publish \/ TsFinalize \/ UplFinalize
  \/ RegisterSessionOnChain
  \/ Interrupt

Spec == Init /\ [][Next]_vars

\* ------------------------------------------------- cipher specification
uploadVars == << variant, console, idb, ledger, numSess, runs, keysMade, status,
                 sessionKey, totalChunks, concurrency, autoRegister, resumed,
                 loaded, decapsulated, prompt, state, key, nextIndex, results, pc, wi,
                 wkey, timer, oldState, sent, writes >>

\* a caller holds a key, a chunk plaintext and its index
InitCipher ==
  /\ variant = "ts"
  /\ IdleUpload
  /\ \E k \in CipherKeys, p \in Plaintexts, i \in ChunkIndices :
       cipher = [NoCipher EXCEPT !.phase = "input", !.key = k, !.data = p,
                                 !.chunkIndex = i]
  /\ registry = NoRegistry
  /\ client = NoClient
  /\ kem = NoKem
  /\ keys = NoKeys
  /\ gw = NoGateway
  /\ xfer = NoTransfer
  /\ proxy = NoProxy

\* encryptChunk(key, data, chunkIndex) with a fresh random IV
EncryptChunk ==
  /\ cipher.phase = "input"
  /\ \E iv \in RandomIvs :
       cipher' = [cipher EXCEPT
                    !.phase = "encrypted",
                    !.packed = encryptChunk(cipher.key, cipher.data,
                                            cipher.chunkIndex, iv)]
  /\ UNCHANGED << uploadVars, xfer, proxy, gw, keys, registry, client, kem >>

\* one bit of the stored packed chunk is flipped (nonce, ciphertext or tag)
TamperChunk ==
  /\ cipher.phase = "encrypted"
  /\ \E pos \in 1..Len(cipher.packed), bit \in FlipBits :
       cipher' = [cipher EXCEPT
                    !.phase = "mangled", !.mangle = "flip",
                    !.packed = [cipher.packed EXCEPT
                                  ![pos] = FlipBit(cipher.packed[pos], bit)]]
  /\ UNCHANGED << uploadVars, xfer, proxy, gw, keys, registry, client, kem >>

\* the gateway returns only the first n bytes of the packed chunk
TruncateChunk ==
  /\ cipher.phase = "encrypted"
  /\ \E n \in 0..(Len(cipher.packed) - 1) :
       cipher' = [cipher EXCEPT
                    !.phase = "mangled", !.mangle = "cut",
                    !.packed = SubSeq(cipher.packed, 1, n)]
  /\ UNCHANGED << uploadVars, xfer, proxy, gw, keys, registry, client, kem >>

\* the keys and positions a download presents a packed chunk with: any key
\* and any manifest position for a chunk as stored, the file's key and the
\* chunk's own position for a corrupted one
ReaderKeys == IF cipher.mangle = "none" THEN CipherKeys ELSE {cipher.key}
ReaderIndices == IF cipher.mangle = "none" THEN ChunkIndices ELSE {cipher.chunkIndex}

\* chunkedDownloadFile: decryptChunk(aesKey, encryptedArrayBuffer, i) by a
\* reader holding key dk who finds the chunk at manifest position di
DecryptChunk ==
  /\ cipher.phase \in {"encrypted", "mangled"}
  /\ \E dk \in ReaderKeys, di \in ReaderIndices :
       cipher' = [cipher EXCEPT
                    !.phase = "decrypted", !.dkey = dk, !.dindex = di,
                    !.out = decryptChunk(dk, cipher.packed, di)]
  /\ UNCHANGED << uploadVars, xfer, proxy, gw, keys, registry, client, kem >>

NextCipher == EncryptChunk \/ TamperChunk \/ TruncateChunk \/ DecryptChunk

SpecCipher == InitCipher /\ [][NextCipher]_vars

\* ----------------------------------------------- registry specification

InitRegistry ==
  /\ variant = "ts"
  /\ IdleUpload
  /\ cipher = NoCipher
  /\ registry = NoRegistry
  /\ client = NoClient
  /\ kem = NoKem
  /\ keys = NoKeys
  /\ gw = NoGateway
  /\ xfer = NoTransfer
  /\ proxy = NoProxy

\* a block is mined: block.timestamp grows
Tick ==
  /\ registry.now < MaxTime
  /\ registry' = [registry EXCEPT !.now = @ + 1]
  /\ UNCHANGED << uploadVars, xfer, proxy, gw, keys, cipher, kem, client >>

\* the arguments the calls of `sender` are drawn from: every value for the
\* owner, one key and the one window [0, MaxTime) for the other senders
CallArgs(sender) ==
  IF sender = "owner"
    THEN [bytes |-> BytesArgs, start |-> 0..MaxTime, end |-> 0..MaxTime]
  ELSE [bytes |-> {EmptyBytes, << 1 >>}, start |-> {0}, end |-> {0, MaxTime}]

\* uploadFile without require(!rec.exists, "ALREADY_EXISTS")
uploadFileAgain(sender) ==
  /\ \E encryptedKey \in CallArgs(sender).bytes \ {EmptyBytes} :
       registry' = Store(registry, sender,
                     [Slot(registry, sender) EXCEPT
                        !.uploads = [ cid |-> "cid",
                                      encryptedKey |-> encryptedKey,
                                      timestamp |-> registry.now,
                                      revoked |-> FALSE,
                                      exists |-> TRUE ]])
  /\ UNCHANGED << uploadVars, xfer, proxy, gw, keys, cipher, kem, client >>

\* uploadFile(cid, encryptedKey) with msg.sender = sender
uploadFile(sender) ==
  /\ \E cid \in Cids, encryptedKey \in CallArgs(sender).bytes :
       /\ cid # ""
       /\ encryptedKey # EmptyBytes
       /\ ~Slot(registry, sender).uploads.exists
       /\ registry' = Store(registry, sender,
                         [Slot(registry, sender) EXCEPT
                            !.uploads = [ cid |-> cid,
                                          encryptedKey |-> encryptedKey,
                                          timestamp |-> registry.now,
                                          revoked |-> FALSE,
                                          exists |-> TRUE ]])
  /\ UNCHANGED << uploadVars, xfer, proxy, gw, keys, cipher, kem, client >>

\* updateEncryptedKey(cid, newEncryptedKey) with msg.sender = sender
updateEncryptedKey(sender) ==
  /\ \E cid \in Cids, newEncryptedKey \in CallArgs(sender).bytes :
       /\ cid # ""
       /\ newEncryptedKey # EmptyBytes
       /\ Slot(registry, sender).uploads.exists
       /\ ~Slot(registry, sender).uploads.revoked
       /\ registry' = Store(registry, sender,
                         [Slot(registry, sender) EXCEPT
                            !.uploads.encryptedKey = newEncryptedKey,
                            !.uploads.timestamp = registry.now])
  /\ UNCHANGED << uploadVars, xfer, proxy, gw, keys, cipher, kem, client >>

\* revokeFile(cid) with msg.sender = sender
revokeFile(sender) ==
  /\ Slot(registry, sender).uploads.exists
  /\ ~Slot(registry, sender).uploads.revoked
  /\ registry' = Store(registry, sender,
                    [Slot(registry, sender) EXCEPT
                       !.uploads.revoked = TRUE,
                       !.uploads.timestamp = registry.now])
  /\ UNCHANGED << uploadVars, xfer, proxy, gw, keys, cipher, kem, client >>

\* grantAccess(grantee, cid, encryptedKeyForGrantee, start, end) with
\* msg.sender = sender
grantAccess(sender) ==
  /\ \E grantee \in Accounts \cup {"0x0"}, cid \in Cids,
        encryptedKeyForGrantee \in CallArgs(sender).bytes,
        start \in CallArgs(sender).start, end \in CallArgs(sender).end :
       /\ grantee # "0x0"
       /\ cid # ""
       /\ encryptedKeyForGrantee # EmptyBytes
       /\ end > start
       /\ Slot(registry, sender).uploads.exists
       /\ ~Slot(registry, sender).uploads.revoked
       /\ registry' = Store(registry, sender,
                         [Slot(registry, sender) EXCEPT
                            !.access[grantee] =
                              [ encryptedKeyForGrantee |-> encryptedKeyForGrantee,
                                start |-> start, end |-> end,
                                revoked |-> FALSE, exists |-> TRUE ]])
  /\ UNCHANGED << uploadVars, xfer, proxy, gw, keys, cipher, kem, client >>

\* revokeAccess(grantee, cid) with msg.sender = sender
revokeAccess(sender) ==
  /\ \E grantee \in Accounts \cup {"0x0"} :
       /\ grantee # "0x0"
       /\ Slot(registry, sender).access[grantee].exists
       /\ ~Slot(registry, sender).access[grantee].revoked
       /\ registry' = Store(registry, sender,
                         [Slot(registry, sender) EXCEPT
                            !.access[grantee].revoked = TRUE])
  /\ UNCHANGED << uploadVars, xfer, proxy, gw, keys, cipher, kem, client >>


\* ------------------------------------------------------- client downloads
\* a handler runs from one await to the next in one step; the contract may
\* be called and blocks may be mined while it is suspended

\* App.tsx openFile for a chunked entry of `owner`, wallet account `account`:
\* hasAccess = isOwner, and only a non-owner goes on to query the contract
OpenFile ==
  /\ client.pc \in {"idle", "done", "denied", "failed", "cancelled"}
  /\ \E account \in Accounts :
       LET isOwner == account = "owner"
       IN  client' = [NoClient EXCEPT
                        !.pc = IF isOwner THEN "getKey" ELSE "check",
                        !.flow = "openFile", !.account = account,
                        !.isOwner = isOwner, !.hasAccess = isOwner]
  /\ UNCHANGED << uploadVars, xfer, proxy, gw, keys, cipher, kem, registry >>

\* chunkedFileDownloader.js handleDownload: every account queries
HandleDownload ==
  /\ client.pc \in {"idle", "done", "denied", "failed", "cancelled"}
  /\ \E account \in Accounts :
       client' = [NoClient EXCEPT !.pc = "check", !.flow = "handleDownload",
                                  !.account = account]
  /\ UNCHANGED << uploadVars, xfer, proxy, gw, keys, cipher, kem, registry >>

\* await contract.isAccessActive(owner, cid, account) resolves or rejects:
\* openFile turns a rejection into hasAccess = false, handleDownload throws
CheckAccess ==
  /\ client.pc = "check"
  /\ \E rpcOk \in BOOLEAN :
       LET active == rpcOk /\ isAccessActive(registry, client.account)
       IN  client' = [client EXCEPT
                        !.queried = rpcOk,
                        !.hasAccess = active,
                        !.pc = IF active THEN "getKey"
                               ELSE IF client.flow = "openFile" THEN "denied"
                               ELSE "failed"]
  /\ UNCHANGED << uploadVars, xfer, proxy, gw, keys, cipher, kem, registry >>

\* await contract.getFile (owner in openFile) or contract.getAccess resolves
GetKey ==
  /\ client.pc = "getKey"
  /\ LET fileRecord == getFile(registry)
         accessRecord == getAccess(registry, client.account)
         bytes == IF client.isOwner THEN fileRecord.encryptedKey
                  ELSE accessRecord.encryptedKeyForGrantee
         thrown == IF client.flow = "handleDownload" THEN FALSE
                   ELSE IF client.isOwner
                          THEN ~fileRecord.exists \/ bytes = EmptyBytes
                          ELSE \/ ~accessRecord.exists
                               \/ accessRecord.revoked
                               \/ bytes = EmptyBytes
     IN  client' = [client EXCEPT
                      !.encryptedKeyBytes = bytes,
                      !.pc = IF thrown THEN "failed"
                             ELSE IF client.flow = "openFile" THEN "confirm"
                             ELSE "decapsulate"]
  /\ UNCHANGED << uploadVars, xfer, proxy, gw, keys, cipher, kem, registry >>

\* openFile: the blocking confirm() dialog is answered
Confirm ==
  /\ client.pc = "confirm"
  /\ \E userConfirmed \in BOOLEAN :
       client' = [client EXCEPT
                    !.pc = IF userConfirmed THEN "decapsulate" ELSE "cancelled"]
  /\ UNCHANGED << uploadVars, xfer, proxy, gw, keys, cipher, kem, registry >>

\* decryptWithSignature(encryptedKeyBytes, account) / ethDecrypt(cipherJson,
\* account) is called: the decapsulation attempt
Decapsulate ==
  /\ client.pc = "decapsulate"
  /\ client' = [client EXCEPT !.pc = "done"]
  /\ UNCHANGED << uploadVars, xfer, proxy, gw, keys, cipher, kem, registry >>


\* ShareModal handleGrantAccess by the connected owner on a chunked entry,
\* with the form holding granteeAddr ("0xg" is the grantee's address, "g" is
\* not an address) and the window start..end; Date.now() is the block time.
\* After the checks the try block throws before it reaches the contract, and
\* the catch block stores the message in the form's error state.
HandleGrantAccess ==
  /\ client.pc \in {"idle", "done", "denied", "failed", "cancelled"}
  /\ \E granteeAddr \in {"0xg", "g"}, start \in 0..MaxTime, end \in 0..MaxTime :
       client' = [NoClient EXCEPT
                    !.pc = "failed", !.flow = "handleGrantAccess",
                    !.isOwner = TRUE,
                    !.granteeAddr = granteeAddr, !.start = start, !.end = end,
                    !.error = IF granteeAddr # "0xg" THEN "Invalid Ethereum address"
                              ELSE IF end <= start
                                THEN "End time must be after start time"
                              ELSE IF end <= registry.now
                                THEN "End time must be in the future"
                              ELSE "File sharing with signature-based encryption requires the grantee to sign a message first."]
  /\ UNCHANGED << uploadVars, xfer, proxy, gw, keys, cipher, kem, registry >>

NextRegistry ==
  \/ Tick
  \/ uploadFile("owner")
  \/ updateEncryptedKey("owner")
  \/ revokeFile("owner")
  \/ grantAccess("owner")
  \/ revokeAccess("owner")
  \/ OpenFile
  \/ HandleDownload
  \/ CheckAccess
  \/ GetKey
  \/ Confirm
  \/ Decapsulate
  \/ HandleGrantAccess

SpecRegistry == InitRegistry /\ [][NextRegistry]_vars

\* the contract alone, called by every account
NextLedger ==
  \/ Tick
  \/ \E sender \in Accounts :
       \/ uploadFile(sender)
       \/ updateEncryptedKey(sender)
       \/ revokeFile(sender)
       \/ grantAccess(sender)
       \/ revokeAccess(sender)

SpecLedger == InitRegistry /\ [][NextLedger]_vars

\* ------------------------------------------ key encapsulation specification

\* owner, grantee and a third party hold distinct secret keys; the owner
\* holds a FileKey text
InitKem ==
  /\ variant = "ts"
  /\ IdleUpload
  /\ cipher = NoCipher
  /\ registry = NoRegistry
  /\ client = NoClient
  /\ \E fileKey \in UNION { [1..n -> {65, 122}] : n \in 1..MaxKeyText },
        sk \in [{"owner", "grantee", "other"} -> 1..MaxBoxKeys] :
       /\ \A a, b \in DOMAIN sk : a # b => sk[a] # sk[b]
       /\ kem = [NoKem EXCEPT !.phase = "input", !.fileKey = fileKey,
                              !.secretKey = sk]
  /\ keys = NoKeys
  /\ gw = NoGateway
  /\ xfer = NoTransfer
  /\ proxy = NoProxy

\* encryptForRecipient(publicKeyBase64, fileKey) for the owner and for the
\* grantee, each with a fresh ephemeral key pair and nonce
EncapsulateKeys ==
  /\ kem.phase = "input"
  /\ \E eph \in [{"owner", "grantee"} -> {1, 2}],
        nonce \in [{"owner", "grantee"} -> {3, 251}] :
       kem' = [kem EXCEPT
                 !.phase = "encapsulated",
                 !.enc = [r \in {"owner", "grantee"} |->
                    encryptForRecipient(
                      encodeBase64(PublicKey(KeyBytes(kem.secretKey[r]))),
                      kem.fileKey, KeyBytes(eph[r]),
                      [j \in 1..BoxNonceLength |-> nonce[r]])]]
  /\ UNCHANGED << uploadVars, xfer, proxy, gw, keys, cipher, registry, client >>

\* one stored EncapsulatedKey is altered: its version, or the first or last
\* character of one of its base64 fields
TamperKey ==
  /\ kem.phase = "encapsulated"
  /\ \E r \in {"owner", "grantee"},
        field \in {"version", "ephemPublicKey", "nonce", "ciphertext"},
        last \in BOOLEAN :
       LET obj == kem.enc[r].data
           pos == IF last THEN Len(obj[field]) ELSE 1
           changed == IF field = "version" THEN "x25519"
                      ELSE [obj[field] EXCEPT ![pos] = (@ + 1) % 65]
       IN  /\ field = "version" => ~last
           /\ kem' = [kem EXCEPT !.phase = "tampered", !.mangled = r,
                                 !.enc[r].data[field] = changed]
  /\ UNCHANGED << uploadVars, xfer, proxy, gw, keys, cipher, registry, client >>

\* decryptForRecipient(encryptedObj, keyPair.secretKey) on both stored
\* objects; an unaltered exchange is read by any of the three parties
DecapsulateKeys ==
  /\ kem.phase \in {"encapsulated", "tampered"}
  /\ \E reader \in [{"owner", "grantee"} -> {"owner", "grantee", "other"}] :
       /\ kem.mangled # "none" => \A r \in DOMAIN reader : reader[r] = r
       /\ kem' = [kem EXCEPT
                    !.phase = "decapsulated",
                    !.reader = reader,
                    !.out = [r \in {"owner", "grantee"} |->
                       decryptForRecipient(kem.enc[r].data,
                                           KeyBytes(kem.secretKey[reader[r]]))]]
  /\ UNCHANGED << uploadVars, xfer, proxy, gw, keys, cipher, registry, client >>

NextKem == EncapsulateKeys \/ TamperKey \/ DecapsulateKeys

SpecKem == InitKem /\ [][NextKem]_vars

\* ------------------------------------------------ key derivation specification
InitKeys ==
  /\ variant = "ts"
  /\ IdleUpload
  /\ cipher = NoCipher
  /\ registry = NoRegistry
  /\ client = NoClient
  /\ kem = NoKem
  /\ \E account \in Accounts : keys = [NoKeys EXCEPT !.account = account]
  /\ gw = NoGateway
  /\ xfer = NoTransfer
  /\ proxy = NoProxy

\* chunkedUploadFile: requestEncryptionKeypair(signer, ownerAddr)
UploadDerive ==
  /\ ~keys.upload.called
  /\ \E signature \in SignerOutcomes(keys.account) :
       keys' = [keys EXCEPT
                  !.upload = [ called |-> TRUE, signature |-> signature,
                               result |-> requestEncryptionKeypair(signature) ]]
  /\ UNCHANGED << uploadVars, xfer, proxy, gw, cipher, registry, client, kem >>

\* requestDecryptionFromMetaMask: deriveDecryptionKeypair(signer, account)
DownloadDerive ==
  /\ ~keys.download.called
  /\ \E signature \in SignerOutcomes(keys.account) :
       keys' = [keys EXCEPT
                  !.download = [ called |-> TRUE, signature |-> signature,
                                 result |-> deriveDecryptionKeypair(signature) ]]
  /\ UNCHANGED << uploadVars, xfer, proxy, gw, cipher, registry, client, kem >>

\* chunkedUploadFile on a session that holds encryptedAesForOwner:
\* window.ethereum.request({method: "eth_decrypt", params:
\* [state.encryptedAesForOwner, ownerAddr]}).  The wallet opens the object
\* with the encryption key of the account, a key it holds itself and that no
\* signature enters.
ResumeDecrypt ==
  /\ keys.upload.called
  /\ keys.upload.result.ok
  /\ ~keys.resume.called
  /\ \E walletKey \in 1..MaxBoxKeys :
       keys' = [keys EXCEPT !.resume = [called |-> TRUE,
                                        secretKey |-> KeyBytes(walletKey)]]
  /\ UNCHANGED << uploadVars, xfer, proxy, gw, cipher, registry, client, kem >>

NextKeys == UploadDerive \/ DownloadDerive \/ ResumeDecrypt

SpecKeys == InitKeys /\ [][NextKeys]_vars

\* ------------------------------------------------ gateway fetcher specification
\* a caller is about to fetch a CID
InitGateway ==
  /\ variant = "ts"
  /\ IdleUpload
  /\ cipher = NoCipher
  /\ registry = NoRegistry
  /\ client = NoClient
  /\ kem = NoKem
  /\ keys = NoKeys
  /\ \E cid \in {"Qm", "zz"} : gw = [NoGateway EXCEPT !.pc = "called", !.cid = cid]
  /\ xfer = NoTransfer
  /\ proxy = NoProxy

\* fetchFromIPFSGateway(cid) up to its first await: sanitizeCID throws for a
\* CID that does not start with Qm, b or B, else the first URL is fetched
FetchFromIPFSGateway ==
  /\ gw.pc = "called"
  /\ gw' = IF gw.cid # "Qm"
             THEN [gw EXCEPT !.pc = "thrown", !.thrown = "Invalid CID format"]
             ELSE LET urls == buildGatewayURLs(gw.cid) IN
                  [gw EXCEPT !.pc = "fetching", !.timer = "armed",
                             !.urls = urls, !.i = 1,
                             !.contacted = << urls[1] >>]
  /\ UNCHANGED << uploadVars, xfer, proxy, keys, cipher, registry, client, kem >>

\* `await fetch(url, {signal: controller.signal})` settles while the timer is
\* armed: a rejection (the timer's controller.abort() rejects it with an
\* AbortError) goes to the catch block and on to the next candidate; a
\* response runs clearTimeout(timeoutId) and then awaits the body, with
\* response.text() when it is not ok and with response.blob() when it is
GatewayResponds ==
  /\ gw.pc = "fetching"
  /\ \E outcome \in FetchOutcomes :
       LET error == [name |-> outcome.name, words |-> outcome.words, status |-> 0]
           errors == Append(gw.errors, [url |-> gw.urls[gw.i], error |-> error,
                                        classification |-> classifyError(error)])
       IN  gw' = IF outcome.kind = "response"
                   THEN [gw EXCEPT !.pc = "reading", !.timer = "cleared",
                                   !.response = outcome]
                 ELSE Continue(gw, errors)
  /\ UNCHANGED << uploadVars, xfer, proxy, keys, cipher, registry, client, kem >>

\* the read of the response's body settles and the loop runs to its next
\* await, to the return or to the throw
BodySettles ==
  /\ gw.pc = "reading"
  /\ LET url == gw.urls[gw.i]
         ok == gw.response.status \in 200..299
         \* new Error(`HTTP ${status}: ${statusText}`) with error.status, or
         \* the rejection of response.blob()
         error == IF ok THEN [name |-> "TypeError", words |-> {"failed to fetch"},
                              status |-> 0]
                  ELSE [name |-> "Error", words |-> gw.response.words,
                        status |-> gw.response.status]
         classification == classifyError(error)
         errors == Append(gw.errors, [url |-> url, error |-> error,
                                      classification |-> classification])
     IN  gw' = IF ok /\ gw.response.blobOk
                 THEN [gw EXCEPT !.pc = "returned",
                                 !.result = [url |-> url, blob |-> url.gateway]]
               ELSE IF /\ ~ok
                       /\ ~classification.retryable
                       /\ gw.response.status >= 400 /\ gw.response.status < 500
                 THEN AllFailed(gw, errors)
               ELSE Continue(gw, errors)
  /\ UNCHANGED << uploadVars, xfer, proxy, keys, cipher, registry, client, kem >>

NextGateway == FetchFromIPFSGateway \/ GatewayResponds \/ BodySettles

SpecGateway == InitGateway /\ [][NextGateway]_vars

\* ----------------------------------------------- transfer specification
\* a caller is about to send one packed chunk with uploadChunkWithRetries, or
\* to download a file of n chunks with chunkedDownloadFile, of
\* chunkedUpload.ts / chunkedDownload.ts ("ts") or of chunkedService.js
\* ("service")
InitTransfer ==
  /\ variant = "ts"
  /\ IdleUpload
  /\ cipher = NoCipher
  /\ registry = NoRegistry
  /\ client = NoClient
  /\ kem = NoKem
  /\ keys = NoKeys
  /\ gw = NoGateway
  /\ proxy = NoProxy
  /\ \E impl \in {"ts", "service"} :
       \/ \E m \in 0..MaxRetries :
            xfer = [NoTransfer EXCEPT !.pc = "called", !.flow = "upload",
                                      !.impl = impl, !.maxRetries = m]
       \/ \E n \in 1..MaxChunks :
            xfer = [NoTransfer EXCEPT !.pc = "called", !.flow = "download",
                                      !.impl = impl, !.n = n]

\* uploadChunkWithRetries up to its first await: chunkedUpload.ts runs
\* `for (attempt = 0; attempt < maxRetries; attempt++)` and, when the loop
\* ends, throws lastError || new Error("Upload failed after retries");
\* chunkedService.js runs `while (true)`
UploadChunkWithRetries ==
  /\ xfer.pc = "called" /\ xfer.flow = "upload"
  /\ xfer' = IF xfer.impl = "ts" /\ ~(0 < xfer.maxRetries)
               THEN [xfer EXCEPT !.pc = "thrown",
                                 !.thrown = "Upload failed after retries"]
             ELSE [xfer EXCEPT !.pc = "sending"]
  /\ UNCHANGED << uploadVars, proxy, gw, keys, cipher, registry, client, kem >>

\* the POST to the proxy's /upload settles: 200 with a cid, a rejection of
\* fetch (status 0) or an error answer of the endpoint, whose message
\* holds the words the ts implementation looks for; the function runs to
\* its return, its throw, or through its backoff sleep to the next POST
PostSettles ==
  /\ xfer.pc = "sending"
  /\ \E answer \in { [status |-> 200, words |-> { }],
                      [status |-> 0, words |-> { }],
                      [status |-> 400, words |-> { }],
                      [status |-> 401, words |-> {"Unauthorized"}],
                      [status |-> 413, words |-> {"File too large"}],
                      [status |-> 500, words |-> { }],
                      [status |-> 502, words |-> { }] } :
       LET answers == Append(xfer.answers, answer)
           attempt == xfer.attempt + 1
       IN  xfer' =
             IF answer.status = 200
               THEN [xfer EXCEPT !.pc = "returned", !.answers = answers]
             ELSE IF xfer.impl = "ts"
               THEN IF answer.words \cap {"Unauthorized", "401", "400",
                                          "File too large"} # { }
                      THEN [xfer EXCEPT !.pc = "thrown", !.answers = answers,
                                        !.thrown = "error of the last attempt"]
                    ELSE IF xfer.attempt < xfer.maxRetries - 1
                      THEN [xfer EXCEPT !.answers = answers, !.attempt = attempt,
                              !.slept = Append(@, 1000 * (2 ^ xfer.attempt))]
                    ELSE [xfer EXCEPT !.pc = "thrown", !.answers = answers,
                                      !.attempt = attempt,
                                      !.thrown = "error of the last attempt"]
             ELSE IF attempt > xfer.maxRetries
               THEN [xfer EXCEPT !.pc = "thrown", !.answers = answers,
                                 !.attempt = attempt,
                                 !.thrown = "error of the last attempt"]
             ELSE [xfer EXCEPT !.answers = answers, !.attempt = attempt,
                               !.slept = Append(@, 1000 * (2 ^ (attempt - 1)))]
  /\ UNCHANGED << uploadVars, proxy, gw, keys, cipher, registry, client, kem >>

\* chunkedDownloadFile up to the fetch of the first chunk: the metadata is
\* fetched and validated and the key imported; chunkedService.js then asks
\* for the output file with showSaveFilePicker and opens its writable, and
\* falls back to collecting Blobs when the picker is missing or cancelled
ChunkedDownloadFile ==
  /\ xfer.pc = "called" /\ xfer.flow = "download"
  /\ \E metadataOk \in BOOLEAN, picked \in BOOLEAN :
       xfer' = IF ~metadataOk
                 THEN [xfer EXCEPT !.pc = "thrown", !.thrown = "metadata"]
               ELSE IF xfer.impl = "service" /\ picked
                 THEN [xfer EXCEPT !.pc = "fetching", !.useFs = TRUE,
                                   !.output = "picked"]
               ELSE [xfer EXCEPT !.pc = "fetching"]
  /\ UNCHANGED << uploadVars, proxy, gw, keys, cipher, registry, client, kem >>

\* one iteration of `for (let i = 0; i < chunks.length; i++)`: the fetch of
\* chunk i settles, the chunk is decrypted with its index as AAD, and the
\* plaintext is pushed (ts, or no file picked) or written to the writable;
\* after the last chunk the parts are saved through a download link, or the
\* writable is closed
ChunkSettles ==
  /\ xfer.pc = "fetching"
  /\ \E outcome \in {"decrypted", "fetch failed", "authentication failed"} :
       LET fetched == Append(xfer.fetched, xfer.i) IN
       xfer' =
         IF outcome # "decrypted"
           THEN [xfer EXCEPT !.pc = "thrown", !.thrown = outcome,
                             !.fetched = fetched]
         ELSE [xfer EXCEPT
                 !.fetched = fetched,
                 !.written = IF xfer.useFs THEN @ + 1 ELSE @,
                 !.i = @ + 1,
                 !.pc = IF xfer.i + 1 < xfer.n THEN "fetching" ELSE "returned",
                 !.output = IF xfer.i + 1 < xfer.n THEN @ ELSE "saved"]
  /\ UNCHANGED << uploadVars, proxy, gw, keys, cipher, registry, client, kem >>

NextTransfer ==
  UploadChunkWithRetries \/ PostSettles \/ ChunkedDownloadFile \/ ChunkSettles

SpecTransfer == InitTransfer /\ [][NextTransfer]_vars

\* ---------------------------------------------- round trip specification
\* a file of 0..MaxFileSize bytes is about to be uploaded with
\* chunkedUploadFile of chunkedUpload.ts and read back with
\* chunkedDownloadFile of chunkedDownload.ts
InitRoundTrip ==
  /\ variant = "ts"
  /\ IdleUpload
  /\ cipher = NoCipher
  /\ registry = NoRegistry
  /\ client = NoClient
  /\ kem = NoKem
  /\ keys = NoKeys
  /\ gw = NoGateway
  /\ proxy = NoProxy
  /\ \E file \in UNION { [1..n -> PlainBytes] : n \in 0..MaxFileSize },
        chunkSize \in 1..MaxChunkSize, k \in CipherKeys :
       xfer = [NoTransfer EXCEPT !.pc = "called", !.flow = "roundtrip",
                                 !.impl = "ts", !.file = file,
                                 !.chunkSize = chunkSize, !.key = k]

\* chunkedUploadFile when every chunk and the metadata are stored:
\* totalChunks = Math.ceil(totalSize / chunkSize); chunk i is
\* file.slice(i * chunkSize, Math.min(start + chunkSize, totalSize)),
\* encrypted with its index as AAD under a fresh IV; the metadata lists
\* {index, cid, size} for i in 0..totalChunks-1
chunkedUploadFile ==
  /\ xfer.pc = "called" /\ xfer.flow = "roundtrip"
  /\ LET totalSize == Len(xfer.file)
         \* totalChunks
         chunkCount == (totalSize + xfer.chunkSize - 1) \div xfer.chunkSize
         start(i) == i * xfer.chunkSize
         end(i) == IF start(i) + xfer.chunkSize < totalSize
                     THEN start(i) + xfer.chunkSize ELSE totalSize
     IN  \E iv \in [0..(chunkCount - 1) -> RandomIvs] :
           xfer' = [xfer EXCEPT
                      !.pc = "published",
                      !.ipfs = [j \in 1..chunkCount |->
                                  encryptChunk(xfer.key,
                                    SubSeq(xfer.file, start(j - 1) + 1, end(j - 1)),
                                    j - 1, iv[j - 1])],
                      !.metadata =
                        [ type |-> "dcs-chunked-file", filename |-> "file",
                          chunks |-> [j \in 1..chunkCount |->
                                        [ index |-> j - 1, cid |-> j,
                                          size |-> end(j - 1) - start(j - 1) ]] ]]
  /\ UNCHANGED << uploadVars, proxy, gw, keys, cipher, registry, client, kem >>

RECURSIVE Reassemble(_)
\* combined.set(new Uint8Array(chunk), offset) for every decrypted chunk
Reassemble(decryptedChunks) ==
  IF decryptedChunks = << >> THEN << >>
  ELSE Head(decryptedChunks) \o Reassemble(Tail(decryptedChunks))

\* chunkedDownloadFile(metadataCid, aesKeyBase64) of chunkedDownload.ts: the
\* metadata is validated, every chunk is fetched (fetched: the gateways
\* answer) and decrypted with its position as AAD, and the plaintexts are
\* put together in order
chunkedDownloadFile ==
  /\ xfer.pc = "published"
  /\ \E fetched \in BOOLEAN :
       LET metadata == xfer.metadata
           decrypted == [j \in 1..Len(metadata.chunks) |->
                           decryptChunk(xfer.key,
                                        xfer.ipfs[metadata.chunks[j].cid], j - 1)]
       IN  xfer' =
             IF metadata.type # "dcs-chunked-file"
               THEN [xfer EXCEPT !.pc = "thrown", !.thrown = "Invalid metadata type"]
             ELSE IF Len(metadata.chunks) = 0
               THEN [xfer EXCEPT !.pc = "thrown",
                       !.thrown = "Invalid metadata: missing or empty chunks array"]
             ELSE IF metadata.filename = ""
               THEN [xfer EXCEPT !.pc = "thrown",
                       !.thrown = "Invalid metadata: missing filename"]
             ELSE IF \E j \in 1..Len(metadata.chunks) : metadata.chunks[j].index # j - 1
               THEN [xfer EXCEPT !.pc = "thrown", !.thrown = "Chunk index mismatch"]
             ELSE IF ~fetched
               THEN [xfer EXCEPT !.pc = "thrown", !.thrown = "fetch failed"]
             ELSE IF \E j \in 1..Len(decrypted) : ~decrypted[j].ok
               THEN [xfer EXCEPT !.pc = "thrown", !.thrown = "authentication failed"]
             ELSE [xfer EXCEPT
                     !.pc = "returned", !.output = "saved",
                     !.combined = Reassemble([j \in 1..Len(decrypted) |->
                                                decrypted[j].data])]
  /\ UNCHANGED << uploadVars, proxy, gw, keys, cipher, registry, client, kem >>

NextRoundTrip == chunkedUploadFile \/ chunkedDownloadFile

SpecRoundTrip == InitRoundTrip /\ [][NextRoundTrip]_vars

\* -------------------------------------------------- proxy specification
\* the proxy starts with or without UPLOAD_SECRET (without it, outside
\* production, verifyHmac accepts every request)
InitProxy ==
  /\ variant = "ts"
  /\ IdleUpload
  /\ cipher = NoCipher
  /\ registry = NoRegistry
  /\ client = NoClient
  /\ kem = NoKem
  /\ keys = NoKeys
  /\ gw = NoGateway
  /\ xfer = NoTransfer
  /\ \E secret \in BOOLEAN : proxy = [NoProxy EXCEPT !.secret = secret]

\* verifyHmac(req) for a request that arrives at time t with the headers
\* x-upload-ts = ts, x-upload-nonce = nonce and a signature that is or is
\* not the HMAC of `${ts}.${nonce}`
VerifyHmac ==
  \E t \in proxy.now..MaxClock, ts \in 0..MaxClock, nonce \in 1..MaxNonceIds,
     signed \in BOOLEAN :
    LET age == IF t >= ts THEN t - ts ELSE ts - t
        has == \E k \in 1..Len(proxy.nonceStore) : proxy.nonceStore[k].nonce = nonce
        accept == [proxy EXCEPT
                     !.now = t, !.answer = "accepted",
                     !.accepted[nonce] = ts,
                     !.replayed = IF proxy.accepted[nonce] = ts
                                    THEN @ \cup {nonce} ELSE @]
    IN
    /\ proxy' =
         IF ~proxy.secret THEN accept
         ELSE IF age > FreshnessWindow \/ has \/ ~signed
           THEN [proxy EXCEPT !.now = t, !.answer = "rejected"]
         ELSE [accept EXCEPT !.nonceStore = Append(@, [nonce |-> nonce, at |-> t])]
    /\ UNCHANGED << uploadVars, xfer, gw, keys, cipher, registry, client, kem >>

\* the setInterval callback runs at time t: entries older than NONCE_TTL are
\* deleted, then, while more than MAX_NONCES entries are left, the oldest
\* ones (sorted by timestamp, which is the insertion order)
NonceCleanup ==
  \E t \in proxy.now..MaxClock :
    LET old(e) == t - e.at > NONCE_TTL
        kept == SelectSeq(proxy.nonceStore, LAMBDA e : ~old(e))
    IN
    /\ proxy' = [proxy EXCEPT
                    !.now = t,
                    !.nonceStore =
                       IF Len(kept) > MAX_NONCES
                         THEN SubSeq(kept, Len(kept) - MAX_NONCES + 1, Len(kept))
                       ELSE kept]
    /\ UNCHANGED << uploadVars, xfer, gw, keys, cipher, registry, client, kem >>

NextProxy == VerifyHmac \/ NonceCleanup

SpecProxy == InitProxy /\ [][NextProxy]_vars

\* ------------------------------------------------------------------ claims
\* the pool's Promise.all has resolved: every started worker returned
PoolReturned ==
  /\ status # "idle"
  /\ \A w \in 1..concurrency : pc[w] = "done"

\* a worker holds a claimed index
Holding(w) == wi[w] # NoIndex

\* C1: no persisted session snapshot ever carries the raw AES key, whichever
\* write produced it (prelude, per-chunk, debounced, final, registration).
C1_NoRawKeyPersisted ==
  \A s \in Sessions : idb[s].aesKeyBase64 = NoKey

\* C1 witness: during an upload whose raw key is in memory, the store holds a
\* snapshot with the owner encapsulation and a recorded chunk.
C1_Witness ==
  /\ status = "running"
  /\ key # NoKey
  /\ idb[sessionKey].encryptedAesForOwner # NoEnc
  /\ \E i \in Idx : Has(idb[sessionKey].uploaded, i)

\* C2: two workers never hold the same index, an index that was already
\* transmitted in this run is never handed out again, and the completion-map
\* entry of an index is written at most once.
C2_DisjointClaims ==
  /\ \A w1, w2 \in Workers :
       (w1 # w2 /\ Holding(w1) /\ Holding(w2)) => wi[w1] # wi[w2]
  /\ \A w \in Workers :
       (Holding(w) /\ pc[w] \in {"read", "genkey", "upload"}) => sent[wi[w]] = 0
  /\ \A i \in Idx : writes[i] <= 1

\* C2 witness: two workers hold indices at once while another index has
\* already been written to the completion map.
C2_Witness ==
  /\ \E w1, w2 \in Workers : w1 # w2 /\ Holding(w1) /\ Holding(w2)
  /\ \E i \in Idx : writes[i] = 1

\* C3: when the pool of a fresh run with 1 <= concurrency <= totalChunks has
\* returned, every index below totalChunks is recorded and was transmitted and
\* written exactly once, and no other index was touched.
C3_ExactlyOnce ==
  (PoolReturned /\ ~resumed /\ concurrency <= totalChunks) =>
    \A i \in Idx :
      IF i < totalChunks
      THEN Has(state.uploaded, i) /\ sent[i] = 1 /\ writes[i] = 1
      ELSE ~Has(state.uploaded, i) /\ sent[i] = 0 /\ writes[i] = 0

\* C3 witness: a fresh run of three chunks with two workers has returned from
\* its pool and published its manifest.
C3_Witness ==
  /\ PoolReturned
  /\ ~resumed
  /\ concurrency = 2
  /\ totalChunks = 3
  /\ state.metadataCid.set

ManifestComplete(m, T) ==
  /\ Len(m.chunks) = T
  /\ \A j \in 1..T : m.chunks[j][1] = j - 1 /\ m.chunks[j][2] # NoKey

Completed(i) ==
  /\ Has(state.uploaded, i)
  /\ \A w \in Workers : wi[w] # i

\* C5: once the upload operation has failed, no worker claims a further chunk
\* index: no worker moves from the top of its loop to the processing of a
\* newly claimed index while the run is failed.
C5_NoClaimAfterFailure ==
  [][ (status = "failed" /\ status' = "failed") =>
        \A w \in Workers : (pc[w] = "claim" => pc'[w] # "read") ]_vars

\* C6: at the step a running pool fails or the process is interrupted, every
\* chunk that had completed is present in the persisted session snapshot.
C6_CompletedDurable ==
  [][ (status = "running" /\ status' \in {"failed", "idle"}) =>
        \A i \in Idx : Completed(i) => Has(idb'[sessionKey].uploaded, i) ]_vars

\* C7: when the upload operation of the implementation with the debounced
\* writer returns or throws, no scheduled write of its session is pending and
\* the persisted snapshot equals the in-memory state without the raw key.
C7_FlushedOnReturn ==
  [][ (variant = "service" /\ status = "running"
         /\ status' \in {"returned", "failed"}) =>
        /\ timer'[sessionKey] = "none"
        /\ idb'[sessionKey] = StripRawKey(state') ]_vars

C9_KeyDroppedOnlyAfterEncapsulation ==
  (status = "returned" /\ key = NoKey) =>
    \A i \in 0..(totalChunks - 1) :
      Has(state.uploaded, i) =>
        \/ idb[sessionKey].encryptedAesForOwner.key = state.uploaded[i]
        \/ ledger[sessionKey].key = state.uploaded[i]

\* C10: decrypting a packed chunk with the key and the index it was encrypted
\* under returns exactly the plaintext, for every plaintext length from 0 up.
C10_RoundTrip ==
  (cipher.phase = "decrypted" /\ cipher.mangle = "none"
     /\ cipher.dkey = cipher.key /\ cipher.dindex = cipher.chunkIndex) =>
    (cipher.out.ok /\ cipher.out.data = cipher.data)

\* C10 witness: an empty plaintext with a two-digit index was encrypted to the
\* 28 bytes of IV and tag and decrypted with the same key and index.
C10_Witness ==
  /\ cipher.phase = "decrypted"
  /\ cipher.mangle = "none"
  /\ cipher.dkey = cipher.key
  /\ cipher.dindex = cipher.chunkIndex
  /\ cipher.chunkIndex >= 10
  /\ cipher.data = << >>
  /\ Len(cipher.packed) = IvLength + TagLength
  /\ cipher.out.ok

\* C11: a packed chunk with one bit flipped (in the nonce, the ciphertext or
\* the tag), and an intact packed chunk presented at a position other than
\* the index it was encrypted under (a swapped or reordered manifest), both
\* fail decryption with the authentication error and yield no plaintext.
C11_TamperOrWrongIndexFails ==
  (cipher.phase = "decrypted"
     /\ (cipher.mangle = "flip"
           \/ (cipher.mangle = "none" /\ cipher.dindex # cipher.chunkIndex))) =>
    (~cipher.out.ok /\ cipher.out.data = << >>
       /\ cipher.out.err = "OperationError")

\* C11 witness: a non-empty chunk encrypted under index 0 is presented with
\* its own key at position 1 and is rejected.
C11_Witness ==
  /\ cipher.phase = "decrypted"
  /\ cipher.mangle = "none"
  /\ cipher.dkey = cipher.key
  /\ cipher.chunkIndex = 0
  /\ cipher.dindex = 1
  /\ Len(cipher.data) > 0
  /\ ~cipher.out.ok

\* C12: a packed chunk shorter than nonce plus tag (12 + 16 bytes) is rejected
\* as too small, not with the authentication error.
C12_ShortChunkMalformed ==
  (cipher.phase = "decrypted" /\ Len(cipher.packed) < IvLength + TagLength) =>
    cipher.out.err = "too small"

\* C13 as stated: for every grant on record, isAccessActive is false before
\* validFrom, true on [validFrom, validTo) unless the grant is revoked,
\* false at and after validTo, and false once the grant is revoked.
C13_WindowAndGrantOnly ==
  \A g \in Accounts :
    LET arec == registry.access[g]
        active == isAccessActive(registry, g)
    IN  arec.exists =>
          /\ registry.now < arec.start => ~active
          /\ (arec.start <= registry.now /\ registry.now < arec.end
                /\ ~arec.revoked) => active
          /\ registry.now >= arec.end => ~active
          /\ arec.revoked => ~active

\* C13: isAccessActive is true exactly when the file record exists and is
\* not revoked, the grant exists and is not revoked, and
\* validFrom <= now < validTo; so it is false before validFrom, false at and
\* after validTo, false for a revoked grant and false for a revoked file.
C13_ActiveExactly ==
  \A g \in Accounts :
    LET arec == registry.access[g]
        rec == registry.uploads
    IN  isAccessActive(registry, g) <=>
          /\ rec.exists /\ ~rec.revoked
          /\ arec.exists /\ ~arec.revoked
          /\ arec.start <= registry.now
          /\ registry.now < arec.end

\* a grant is active in the last instant of a window that opened later than
\* the file was registered
C13_Witness ==
  /\ isAccessActive(registry, "grantee")
  /\ registry.access["grantee"].start > 0
  /\ registry.now = registry.access["grantee"].end - 1

\* C14: a decapsulation is attempted only in a download that queried
\* isAccessActive on the ledger and got true, on the owner path and the
\* grantee path alike.
C14_QueriedBeforeDecapsulation ==
  client.pc = "done" => (client.queried /\ client.hasAccess)

\* C15: the grantee's EncapsulatedKey decapsulates under the grantee's
\* secret key to the FileKey that the owner's EncapsulatedKey decapsulates
\* to under the owner's secret key, and decapsulating with another party's
\* key pair, or an altered EncapsulatedKey, fails without a key.
C15_SameKeyOrFailure ==
  kem.phase = "decapsulated" =>
    /\ \A r \in {"owner", "grantee"} :
         IF kem.mangled # r /\ kem.reader[r] = r
           THEN kem.out[r].ok /\ kem.out[r].data = kem.fileKey
           ELSE /\ ~kem.out[r].ok
                /\ kem.out[r].data = << >>
                /\ kem.out[r].err \in {"Decryption failed", "Invalid version"}
    /\ (kem.mangled = "none" /\ \A r \in {"owner", "grantee"} : kem.reader[r] = r) =>
         (kem.out["grantee"].ok /\ kem.out["grantee"].data = kem.out["owner"].data)

\* owner and grantee both recovered a FileKey of more than one character
\* from their own EncapsulatedKey
C15_Witness ==
  /\ kem.phase = "decapsulated"
  /\ kem.mangled = "none"
  /\ kem.reader["owner"] = "owner" /\ kem.reader["grantee"] = "grantee"
  /\ kem.out["grantee"].ok /\ kem.out["owner"].ok
  /\ Len(kem.fileKey) > 1
  /\ kem.enc["owner"].data.ciphertext # kem.enc["grantee"].data.ciphertext

\* C16: when the owner of a registered, unrevoked file submits the share
\* form with a valid grantee address and a window with start < end and end
\* in the future, the ledger afterwards holds an EncapsulatedKey for that
\* grantee together with that window.
C16_GrantStored ==
  [][(/\ client'.flow = "handleGrantAccess"
      /\ client' # client
      /\ registry.uploads.exists /\ ~registry.uploads.revoked
      /\ client'.granteeAddr = "0xg"
      /\ client'.start < client'.end
      /\ client'.end > registry.now)
     => (/\ registry'.access["grantee"].exists
         /\ ~registry'.access["grantee"].revoked
         /\ registry'.access["grantee"].encryptedKeyForGrantee # EmptyBytes
         /\ registry'.access["grantee"].start = client'.start
         /\ registry'.access["grantee"].end = client'.end)]_vars

\* C17: when the signer returned the same signature at upload and at
\* download, the key pair derived at download is the key pair derived at
\* upload, its public key is the one the upload published, and neither
\* derivation stored anything.
C17_SameSignatureSameKeypair ==
  (/\ keys.upload.called /\ keys.download.called
   /\ ~keys.upload.signature.rejected
   /\ keys.upload.signature = keys.download.signature) =>
    /\ keys.download.result.ok = keys.upload.result.ok
    /\ keys.upload.result.ok =>
         /\ keys.download.result.data = keys.upload.result.data.keyPair
         /\ keys.download.result.data.publicKey =
              decodeBase64(keys.upload.result.data.publicKeyBase64)
    /\ keys.stored = { }

\* upload and download derived a key pair from the same signature
C17_Witness ==
  /\ keys.upload.called /\ keys.download.called
  /\ keys.upload.signature = keys.download.signature
  /\ keys.upload.result.ok /\ keys.download.result.ok

\* C18: the candidates are contacted in list order, and a fetch that returns
\* returns the URL and the payload of the first candidate that answered
\* successfully, every candidate before it having failed and none after it
\* having been contacted.
C18_FirstSuccessInOrder ==
  /\ gw.contacted = SubSeq(gw.urls, 1, Len(gw.contacted))
  /\ gw.pc = "returned" =>
       /\ gw.result.url = gw.urls[gw.i]
       /\ gw.result.blob = gw.urls[gw.i].gateway
       /\ Len(gw.contacted) = gw.i
       /\ Len(gw.errors) = gw.i - 1
       /\ \A k \in 1..(gw.i - 1) : gw.errors[k].url = gw.urls[k]

\* the last candidate answered successfully after all others had failed
C18_Witness ==
  /\ gw.pc = "returned"
  /\ gw.i = Len(gw.urls)
  /\ gw.i > 1
  /\ Len(gw.errors) = gw.i - 1

\* C19: the fetch stops before the end of the candidate list only on a
\* non-retryable client error; a timeout, a network error, a not-found
\* response or a transient server error moves on to the next candidate.
C19_OnlyClientErrorStops ==
  (gw.pc = "thrown" /\ gw.urls # << >> /\ Len(gw.errors) < Len(gw.urls)) =>
    LET last == gw.errors[Len(gw.errors)] IN
      /\ last.error.status \in 400..499
      /\ last.error.status \notin {404, 408, 429}

\* C20: the all-gateways-failed error carries exactly one entry per
\* candidate, in list order.
C20_OneErrorPerEndpoint ==
  gw.thrown = "All gateways failed" =>
    /\ Len(gw.errors) = Len(gw.urls)
    /\ \A k \in 1..Len(gw.urls) : gw.errors[k].url = gw.urls[k]

\* C21: while an attempt still awaits something of its endpoint (the response
\* or its payload), the attempt's timeout is armed, so that the timeout
\* abandons an attempt that has not delivered its complete payload
C21_AttemptBoundedByTimeout ==
  gw.pc \in {"fetching", "reading"} => gw.timer = "armed"

\* C22: a manifest is present, in memory or in the store, only with a
\* recorded chunk for every index 0..totalChunks-1, and a step that writes
\* the ledger entry of a session writes the EncapsulatedKey (made for the
\* owner) that the session stores after the step, for a session whose
\* manifest has been published.
C22_ManifestThenRegistration ==
  /\ [](/\ state.metadataCid.set =>
             \A i \in 0..(state.totalChunks - 1) : state.uploaded[i] # NoKey
        /\ \A s \in Sessions :
             idb[s].metadataCid.set =>
               \A i \in 0..(idb[s].totalChunks - 1) : idb[s].uploaded[i] # NoKey)
  /\ [][\A s \in Sessions :
          ledger'[s] # ledger[s] =>
            /\ idb'[s].metadataCid.set
            /\ ledger'[s].pub \in {"sig", "mm"} /\ ledger'[s].key # NoKey
            /\ ledger'[s] = idb'[s].encryptedAesForOwner]_vars

\* a session of more than one chunk has been registered on the ledger
C22_Witness ==
  \E s \in Sessions :
    /\ ledger[s] # NoEnc
    /\ idb[s].metadataCid.set
    /\ idb[s].totalChunks > 1

\* C23: only a transient transport error (a rejected or timed-out request,
\* a 5xx answer) is followed by another transmission of the chunk, so a 401
\* or another non-transient rejection is never retried; a failed call has
\* made at most maxRetries + 1 transmissions, with a backoff sleep between
\* any two of them.
C23_OnlyTransientRetried ==
  /\ \A k \in 1..(Len(xfer.answers) - 1) :
       xfer.answers[k].status = 0 \/ xfer.answers[k].status >= 500
  /\ Len(xfer.answers) <= xfer.maxRetries + 1
  /\ Len(xfer.slept) >= Len(xfer.answers) - 1

\* C24: when the decryption of chunk i fails authentication the download
\* throws with chunks 0..i fetched once each and nothing after i, and no
\* output exists: no file, no open file handle, and no plaintext written.
C24_AuthFailureLeavesNoOutput ==
  xfer.thrown = "authentication failed" =>
    /\ xfer.pc = "thrown"
    /\ xfer.fetched = [k \in 1..(xfer.i + 1) |-> k - 1]
    /\ xfer.output = "none"
    /\ xfer.written = 0

\* C25: in a run whose wallet prompt was rejected no chunk is transmitted,
\* and the persisted session keeps every chunk record and the
\* EncapsulatedKey it held when the run loaded it.
C25_RejectedPromptAborts ==
  prompt = "rejected" =>
    /\ \A i \in Idx : sent[i] = 0
    /\ \A i \in Idx :
         Has(loaded.uploaded, i) => Has(idb[sessionKey].uploaded, i)
    /\ loaded.encryptedAesForOwner # NoEnc =>
         idb[sessionKey].encryptedAesForOwner = loaded.encryptedAesForOwner

\* C26: a run whose manifest has been published does not fail: when the
\* registration on the ledger fails, chunkedUploadFile still returns.
C26_RegistrationErrorDoesNotBlock ==
  state.metadataCid.set => status # "failed"

\* C27: within a run, an index that the session already records is never
\* processed again: no step transmits it, writes its completion-map entry
\* or changes its record, and the step in which a worker passes over
\* recorded indices (its claim) leaves the persisted sessions unchanged.
C27_RecordedIndexIsNoOp ==
  [][(runs' = runs /\ status' # "idle") =>
       /\ \A i \in Idx :
            Has(state.uploaded, i) =>
              /\ sent'[i] = sent[i]
              /\ writes'[i] = writes[i]
              /\ state'.uploaded[i] = state.uploaded[i]
       /\ nextIndex' # nextIndex => idb' = idb]_vars

\* a resumed run has returned after passing over a recorded index and
\* transmitting a missing one
C27_Witness ==
  /\ resumed
  /\ status = "returned"
  /\ \E i \in 0..(totalChunks - 1) :
       Has(loaded.uploaded, i) /\ sent[i] = 0 /\ writes[i] = 0
  /\ \E j \in 0..(totalChunks - 1) : ~Has(loaded.uploaded, j) /\ sent[j] = 1

\* C28: no console message shows characters of a raw FileKey.
C28_NoKeyMaterialLogged ==
  \A m \in console : m.chars = 0

\* C29: with the shared secret configured, the proxy never accepts again a
\* request (the same timestamp and nonce) that it has accepted; a request
\* is accepted only with its timestamp inside the freshness window, so a
\* second acceptance is a replay inside the window.
C29_NonceNeverAcceptedTwice ==
  proxy.secret => proxy.replayed = { }

\* C30: the chunks listed by a published manifest, in memory or in the
\* store, were all encrypted under the same key.
C30_OneKeyPerManifest ==
  \A m \in {state.metadataCid} \cup {idb[s].metadataCid : s \in Sessions} :
    m.set => \A j, k \in 1..Len(m.chunks) : m.chunks[j][2] = m.chunks[k][2]
C32_ClaimedIndexInRange ==
  \A w \in Workers :
    (status # "idle" /\ wi[w] # NoIndex) => (0 <= wi[w] /\ wi[w] < totalChunks)

\* C33: once registerSessionOnChain has persisted encryptedAesForOwner and
\* onChainTx for a session, no later write to the store replaces the record
\* by one that lacks them
C33_RegistrationNeverOverwritten ==
  [][\A s \in Sessions :
       (idb[s] # NoSession /\ idb[s].registered)
         => /\ idb'[s].registered
            /\ idb'[s].encryptedAesForOwner = idb[s].encryptedAesForOwner]_vars

\* C34: for every maxRetries >= 0 a finished uploadChunkWithRetries has
\* transmitted the chunk at least once and at most maxRetries + 1 times, and
\* it has returned a content address or thrown the error of its last attempt
C34_TransmissionsBounded ==
  (xfer.flow = "upload" /\ xfer.pc \in {"returned", "thrown"})
    => /\ 1 <= Len(xfer.answers)
       /\ Len(xfer.answers) <= xfer.maxRetries + 1
       /\ xfer.pc = "returned" => xfer.answers[Len(xfer.answers)].status = 200
       /\ xfer.pc = "thrown" => xfer.thrown = "error of the last attempt"

\* C35: file revocation is permanent: once the owner has revoked the file,
\* isAccessActive is false for every grantee in that state and in every
\* later one, whatever any account calls
C35_FileRevocationPermanent ==
  /\ [](registry.uploads.revoked
          => \A g \in Accounts : ~isAccessActive(registry, g))
  /\ [][registry.uploads.revoked
          => (registry'.uploads.exists /\ registry'.uploads.revoked)]_vars

\* the file was revoked at an earlier block while a grant that is neither
\* revoked nor outside its window is still stored
C35_Witness ==
  /\ registry.uploads.revoked
  /\ registry.uploads.timestamp < registry.now
  /\ \E g \in Accounts :
       /\ registry.access[g].exists
       /\ ~registry.access[g].revoked
       /\ InWindow(registry.access[g].start, registry.access[g].end, registry.now)

\* C36: isAccessActive(owner, cid, g) is true only when the owner itself
\* registered cid and granted access afterwards: the file record of
\* (owner, cid) changes only in the owner's uploadFile, updateEncryptedKey
\* and revokeFile, its access records only in the owner's grantAccess and
\* revokeAccess on a registered file, and no call of another account
\* changes either
C36_OnlyOwnerCallsWriteOwnerRecords ==
  /\ [](\A g \in Accounts :
          isAccessActive(registry, g)
            => (registry.uploads.exists /\ registry.access[g].exists))
  /\ [][/\ registry'.uploads # registry.uploads
            => (uploadFile("owner") \/ updateEncryptedKey("owner")
                  \/ revokeFile("owner"))
        /\ registry'.access # registry.access
            => (grantAccess("owner") \/ revokeAccess("owner"))
        /\ \A g \in Accounts :
             (~registry.access[g].exists /\ registry'.access[g].exists)
               => (registry.uploads.exists /\ grantAccess("owner"))]_vars

\* the grantee's access to the owner's file is active while the other
\* account has registered, shared and revoked a file of its own under the
\* same cid
C36_Witness ==
  /\ isAccessActive(registry, "grantee")
  /\ registry.others["grantee"].uploads.revoked
  /\ registry.others["grantee"].access["grantee"].exists

\* C37: for every file size >= 0, the empty file and the sizes that are no
\* multiple of the chunk size included, the metadata the upload publishes
\* passes the download's validation, and when the gateways answer the
\* download puts the original bytes together
C37_RoundTrip ==
  /\ (xfer.flow = "roundtrip" /\ xfer.pc = "thrown")
       => xfer.thrown = "fetch failed"
  /\ (xfer.flow = "roundtrip" /\ xfer.pc = "returned")
       => xfer.combined = xfer.file

====
